---- MODULE Spec2Model ----
(***************************************************************************)
(* Symptom Timeline Diary: the relational store with its row-level         *)
(* policies (the SQL migration), and the handlers of the views that call   *)
(* it.  A request is one action: it is decided by the policies of its      *)
(* table and command and by the table's constraints, and its answer is     *)
(* kept in resp, the response of the last request.                         *)
(***************************************************************************)
EXTENDS Naturals, FiniteSets, Sequences, TLC

\* ------------------------------------------------------------------ bounds
\* rows a table may come to hold (ids handed out, for the tables with an id)
MaxSymptoms == 1
MaxNotes == 1
MaxMessages == 1
MaxAssignments == 1
MaxGrants == 2
\* characters typed into the search box, one key at a time
MaxTermLen == 3
\* subscriptions a Chat view comes to hold (one per run of its effect)
MaxSubscriptions == 2
MaxCascadeSymptoms == 2
MaxCascadeNotes == 2
MaxUniqueAssignments == 2
MaxObjects == 2
MaxQueryMessages == 3
MaxTimelineSymptoms == 2
MaxSelections == 2
MaxHops == 3

\* ------------------------------------------------------------- value sets
\* auth.users ids the identity provider can hand out
Ids == {1, 2, 3}
\* the browsers that have the Auth page open
Browsers == {"b1", "b2", "b3"}
\* auth.uid() of a request that carries no session (SQL NULL: equal to no id)
Anon == 0
\* CREATE TYPE public.app_role AS ENUM ('patient', 'doctor')
app_role == {"patient", "doctor"}
\* CHECK (progress_status IN (...)); the column is nullable
progress_statuses == {"improving", "stable", "worsening"}
NoStatus == "null"
Titles == {"Rash", "Fever"}
Contents == {"hello", "edited"}

VARIABLES
  users,          \* auth.users: the identities that exist
  profiles,       \* public.profiles rows [id, role]
  user_roles,     \* public.user_roles rows [user_id, role]
  symptoms,       \* public.symptoms rows [id, patient_id, title]
  doctor_notes,   \* public.doctor_notes rows [id, symptom_id, doctor_id, progress_status]
  messages,       \* public.messages rows [id, sender_id, receiver_id, content, read]
  assignments,    \* public.patient_doctor_assignments rows [patient_id, doctor_id]
  nextSym,        \* symptoms ids handed out so far (gen_random_uuid never repeats)
  nextNote,       \* doctor_notes ids handed out so far
  nextMsg,        \* messages ids handed out so far
  auth,           \* per browser: the Auth page's state and its sign-up handler's position
  removed,        \* history: the assignment row removed last, while it stays absent
  resp,           \* the response of the last request
  searchTerm,     \* SymptomFinder: the search box's value
  filteredSymptoms, \* SymptomFinder: the entries shown
  chat,           \* the Chat view of one browser: its state hooks and subscriptions
  objects,        \* storage.objects of the bucket symptom-photos: rows [name, data]
  ptl,            \* the PatientTimeline view of one browser: its props, state hooks and fetches in flight
  page            \* the router of one browser: the page shown, useAuth's values, DoctorDashboard's state

vars == <<users, profiles, user_roles, symptoms, doctor_notes, messages,
          assignments, nextSym, nextNote, nextMsg, auth, removed, resp,
          searchTerm, filteredSymptoms, chat, objects, ptl, page>>

\* the variables the table requests and the Auth page leave alone
views == <<searchTerm, filteredSymptoms, chat, objects, ptl, page>>

\* ---------------------------------------------------------------- helpers
Response(op, uid, ok, rows, arg) ==
  [op |-> op, uid |-> uid, ok |-> ok, rows |-> rows, arg |-> arg]

NoResponse == Response("none", Anon, FALSE, {}, <<>>)

\* the Auth page's form as its state hooks start: isLogin, email, password,
\* fullName, role
EmptyForm ==
  [isLogin |-> TRUE, email |-> "", password |-> "", fullName |-> "",
   role |-> "patient"]

\* The Auth page before a submit.  form and role are the form as it was
\* submitted, calls the backend calls the handler has issued.
AuthIdle == [pc |-> "idle", role |-> "patient", session |-> FALSE,
             user |-> Anon, toast |-> "none", nav |-> "none",
             form |-> EmptyForm, loading |-> FALSE, calls |-> {}]

\* ----------------------------------------------------------- SymptomFinder
\* const symptomDatabase: SymptomInfo[]
symptomDatabase ==
  << [name |-> "Rash",
      description |-> "A change in skin appearance or texture, often with redness, bumps, or irritation.",
      keywords |-> <<"itchy", "red", "bumps", "skin", "irritation", "hives">>],
     [name |-> "Fever",
      description |-> "Elevated body temperature, usually above 100.4°F (38°C), often indicating infection.",
      keywords |-> <<"temperature", "hot", "chills", "sweating", "infection">>],
     [name |-> "Headache",
      description |-> "Pain in the head or upper neck, ranging from mild to severe.",
      keywords |-> <<"pain", "head", "migraine", "pressure", "throbbing">>],
     [name |-> "Cough",
      description |-> "A reflex action to clear airways of mucus, irritants, or foreign particles.",
      keywords |-> <<"throat", "phlegm", "dry", "productive", "wheeze">>],
     [name |-> "Fatigue",
      description |-> "Extreme tiredness or lack of energy that doesn't improve with rest.",
      keywords |-> <<"tired", "exhausted", "weak", "energy", "sleepy">>],
     [name |-> "Nausea",
      description |-> "An uncomfortable sensation of wanting to vomit.",
      keywords |-> <<"sick", "stomach", "queasy", "vomit", "upset">>],
     [name |-> "Swelling",
      description |-> "Enlargement or puffiness in a body part due to fluid accumulation.",
      keywords |-> <<"puffy", "inflammation", "edema", "enlarged", "bloated">>],
     [name |-> "Joint Pain",
      description |-> "Discomfort, aches, or soreness in body joints.",
      keywords |-> <<"arthritis", "stiff", "ache", "knee", "elbow", "shoulder">> ] >>

\* the keys pressed in the search box, and the texts pasted into it whole
Keys == {"r", "a", "s", "h", "R", " "}

Pasted == {"itchy", "RASH", "Joint Pain", " rash", "\t", "°f", "xyz"}

\* the characters String.prototype.trim strips (those that can be entered)
WhiteSpace == {" ", "\t"}

\* String.prototype.toLowerCase, one character
LowerChar(c) ==
  CASE c = "A" -> "a" [] c = "B" -> "b" [] c = "C" -> "c" [] c = "D" -> "d"
    [] c = "E" -> "e" [] c = "F" -> "f" [] c = "G" -> "g" [] c = "H" -> "h"
    [] c = "I" -> "i" [] c = "J" -> "j" [] c = "K" -> "k" [] c = "L" -> "l"
    [] c = "M" -> "m" [] c = "N" -> "n" [] c = "O" -> "o" [] c = "P" -> "p"
    [] c = "Q" -> "q" [] c = "R" -> "r" [] c = "S" -> "s" [] c = "T" -> "t"
    [] c = "U" -> "u" [] c = "V" -> "v" [] c = "W" -> "w" [] c = "X" -> "x"
    [] c = "Y" -> "y" [] c = "Z" -> "z" [] OTHER -> c

RECURSIVE toLowerCase(_)
toLowerCase(str) ==
  IF str = "" THEN ""
  ELSE LowerChar(SubSeq(str, 1, 1)) \o toLowerCase(SubSeq(str, 2, Len(str)))

RECURSIVE trimStart(_)
trimStart(str) ==
  IF str # "" /\ SubSeq(str, 1, 1) \in WhiteSpace
  THEN trimStart(SubSeq(str, 2, Len(str)))
  ELSE str

RECURSIVE trimEnd(_)
trimEnd(str) ==
  IF str # "" /\ SubSeq(str, Len(str), Len(str)) \in WhiteSpace
  THEN trimEnd(SubSeq(str, 1, Len(str) - 1))
  ELSE str

\* String.prototype.trim
trim(str) == trimEnd(trimStart(str))

\* (mutant) a match at the start of the text only
includes_AtStart(str, search) ==
  Len(search) <= Len(str) /\ SubSeq(str, 1, Len(search)) = search

\* String.prototype.includes
includes(str, search) ==
  \E i \in 1..(Len(str) + 1) :
    i + Len(search) - 1 <= Len(str) /\ SubSeq(str, i, i + Len(search) - 1) = search

\* handleSearch's filter callback
SymptomMatches(symptom, lowerTerm) ==
  \/ includes(toLowerCase(symptom.name), lowerTerm)
  \/ includes(toLowerCase(symptom.description), lowerTerm)
  \/ \E k \in 1..Len(symptom.keywords) :
       includes(toLowerCase(symptom.keywords[k]), lowerTerm)

\* handleSearch(term), the search box's onChange
handleSearch(term) ==
  /\ searchTerm' = term
  /\ filteredSymptoms' =
       IF trim(term) = "" THEN symptomDatabase
       ELSE LET lowerTerm == toLowerCase(term)
            IN SelectSeq(symptomDatabase, LAMBDA symptom : SymptomMatches(symptom, lowerTerm))
  /\ UNCHANGED <<users, profiles, user_roles, symptoms, doctor_notes, messages,
                 assignments, nextSym, nextNote, nextMsg, auth, removed, resp, chat,
                 objects, ptl, page>>

\* PatientTimeline before DoctorDashboard renders it: no signed-in user and no
\* patientId yet, its state hooks' initial values, no fetch in flight
PtlUnmounted ==
  [user |-> Anon, patientId |-> Anon, symptoms |-> <<>>, notes |-> {},
   loading |-> TRUE, fetches |-> {}, selections |-> 0]

\* no page open.  path is the route shown; loading, user and userRole are the
\* values useAuth gives the page ("none": no role known); hops counts the
\* navigate calls of the pages' redirect effects; loadingPatients, patients and
\* fetch ("idle", "sent", "done") are DoctorDashboard's.
PageClosed ==
  [path |-> "closed", loading |-> TRUE, user |-> Anon, userRole |-> "none",
   hops |-> 0, loadingPatients |-> TRUE, patients |-> <<>>, fetch |-> "idle"]

\* the Chat view before it is mounted: its state hooks' initial values, no
\* user yet, no request sent, no channel subscribed
ChatUnmounted ==
  [mounted |-> FALSE, user |-> Anon, pending |-> "none", doctors |-> <<>>,
   selectedDoctor |-> Anon, fetchFor |-> Anon, messages |-> <<>>,
   subs |-> {}, delivered |-> {}, data |-> {}, stale |-> {}]

\* ------------------------------------------------- authorization predicate
\* (mutant) has_role as SECURITY INVOKER: the requester's SELECT policy on
\* user_roles filters the rows it reads
has_role_rows_Invoker(requester) == {g \in user_roles : g.user_id = requester}

\* The rows has_role reads.  SECURITY DEFINER: the function reads user_roles with
\* its owner's rights, so the requester's SELECT policy does not filter them.
has_role_rows(requester) == user_roles

\* public.has_role(_user_id, _role), evaluated in a request of `requester`
has_role_as(requester, _user_id, _role) ==
  \E g \in has_role_rows(requester) : g.user_id = _user_id /\ g.role = _role

\* has_role as the policies call it: has_role(auth.uid(), ...)
has_role(uid, _role) == has_role_as(uid, uid, _role)

\* ----------------------------------------------------- row-level policies
\* Each policy is a predicate of (auth.uid(), row).  Row-level security is
\* enabled on every table, so a command with no policy is denied to every
\* requester, and the policies of one command are combined with OR.

\* "Users can view their own profile": USING (auth.uid() = id)
UsersCanViewTheirOwnProfile(uid, row) == uid = row.id

\* (mutant) an UPDATE policy open to every signed-in requester
UsersCanUpdate_AnyProfile(uid, row) == uid # Anon

\* profiles has no DELETE policy
profiles_DELETE(uid, row) == FALSE

\* "Users can update their own profile": USING (auth.uid() = id);
\* with no WITH CHECK the USING expression is also applied to the new row
UsersCanUpdateTheirOwnProfile(uid, row) == uid = row.id

\* "Users can insert their own profile": WITH CHECK (auth.uid() = id)
UsersCanInsertTheirOwnProfile(uid, row) == uid = row.id

\* "Users can view their own roles": USING (auth.uid() = user_id)
UsersCanViewTheirOwnRoles(uid, row) == uid = row.user_id

\* (mutant) an INSERT policy that lets an identity grant itself a role
user_roles_INSERT_Self(uid, row) == uid = row.user_id

\* user_roles has no INSERT, UPDATE or DELETE policy
user_roles_INSERT(uid, row) == FALSE

user_roles_UPDATE(uid, row) == FALSE

user_roles_DELETE(uid, row) == FALSE

\* "Patients can view their own symptoms": USING (auth.uid() = patient_id)
PatientsCanViewTheirOwnSymptoms(uid, row) == uid = row.patient_id

\* (mutant) the policy without its has_role conjunct
DoctorsCanView_NoRoleCheck(uid, row) ==
  \E a \in assignments : a.patient_id = row.patient_id /\ a.doctor_id = uid

\* (mutant) the policy deciding from assignment rows that are no longer there
DoctorsCanView_StaleAssignments(uid, row) ==
  /\ has_role(uid, "doctor")
  /\ \E a \in assignments \cup removed :
       a.patient_id = row.patient_id /\ a.doctor_id = uid

\* "Doctors can view assigned patients' symptoms"
DoctorsCanViewAssignedPatientsSymptoms(uid, row) ==
  /\ has_role(uid, "doctor")
  /\ \E a \in assignments : a.patient_id = row.patient_id /\ a.doctor_id = uid

symptoms_SELECT(uid, row) ==
  \/ PatientsCanViewTheirOwnSymptoms(uid, row)
  \/ DoctorsCanViewAssignedPatientsSymptoms(uid, row)

\* "Patients can insert their own symptoms": WITH CHECK (auth.uid() = patient_id)
PatientsCanInsertTheirOwnSymptoms(uid, row) == uid = row.patient_id

\* "Patients can update their own symptoms": USING (auth.uid() = patient_id);
\* with no WITH CHECK the USING expression is also applied to the new row
PatientsCanUpdateTheirOwnSymptoms(uid, row) == uid = row.patient_id

\* (mutant) a DELETE policy open to every signed-in requester
PatientsCanDelete_AnyRequester(uid, row) == uid # Anon

\* "Patients can delete their own symptoms": USING (auth.uid() = patient_id)
PatientsCanDeleteTheirOwnSymptoms(uid, row) == uid = row.patient_id

\* "Doctors can insert notes"
DoctorsCanInsertNotes(uid, row) ==
  /\ has_role(uid, "doctor")
  /\ uid = row.doctor_id

\* "Doctors can view their own notes": USING (auth.uid() = doctor_id)
DoctorsCanViewTheirOwnNotes(uid, row) == uid = row.doctor_id

\* (mutant) the policy also answering a doctor assigned to the symptom's owner
PatientsCanViewNotes_OrAssignedDoctor(uid, row) ==
  \E s \in symptoms :
    /\ s.id = row.symptom_id
    /\ \/ s.patient_id = uid
       \/ \E a \in assignments : a.patient_id = s.patient_id /\ a.doctor_id = uid

\* "Patients can view notes on their symptoms"
PatientsCanViewNotesOnTheirSymptoms(uid, row) ==
  \E s \in symptoms : s.id = row.symptom_id /\ s.patient_id = uid

doctor_notes_SELECT(uid, row) ==
  \/ DoctorsCanViewTheirOwnNotes(uid, row)
  \/ PatientsCanViewNotesOnTheirSymptoms(uid, row)

\* (mutant) an UPDATE policy for the authoring doctor
doctor_notes_UPDATE_ByAuthor(uid, row) == uid = row.doctor_id

\* doctor_notes has no UPDATE or DELETE policy
doctor_notes_UPDATE(uid, row) == FALSE

doctor_notes_DELETE(uid, row) == FALSE

\* (mutant) a SELECT policy open to every signed-in requester
UsersCanView_AnyMessage(uid, row) == uid # Anon

\* "Users can view their own messages"
UsersCanViewTheirOwnMessages(uid, row) ==
  uid = row.sender_id \/ uid = row.receiver_id

\* (mutant) an INSERT policy that does not compare sender_id with the requester
UsersCanSend_AnySender(uid, row) == uid # Anon

\* "Users can send messages": WITH CHECK (auth.uid() = sender_id)
UsersCanSendMessages(uid, row) == uid = row.sender_id

\* "Users can update their received messages": USING (auth.uid() = receiver_id);
\* with no WITH CHECK the USING expression is also applied to the new row
UsersCanUpdateTheirReceivedMessages(uid, row) == uid = row.receiver_id

\* messages has no DELETE policy
messages_DELETE(uid, row) == FALSE

\* "Users can view their assignments"
UsersCanViewTheirAssignments(uid, row) ==
  uid = row.patient_id \/ uid = row.doctor_id

\* (mutant) an INSERT policy that also admits the doctor the row names
PatientsCanCreate_EitherParty(uid, row) ==
  uid = row.patient_id \/ uid = row.doctor_id

\* "Patients can create assignments": WITH CHECK (auth.uid() = patient_id)
PatientsCanCreateAssignments(uid, row) == uid = row.patient_id

\* patient_doctor_assignments has no UPDATE or DELETE policy
assignments_UPDATE(uid, row) == FALSE

assignments_DELETE(uid, row) == FALSE

\* ------------------------------------------------------------ the tables
SymptomRow(id, pid, title) == [id |-> id, patient_id |-> pid, title |-> title]

NoteRow(id, sid, did, st) ==
  [id |-> id, symptom_id |-> sid, doctor_id |-> did, progress_status |-> st]

MessageRow(id, snd, rcv, content, read) ==
  [id |-> id, sender_id |-> snd, receiver_id |-> rcv, content |-> content,
   read |-> read]

AssignmentRow(pid, did) == [patient_id |-> pid, doctor_id |-> did]

RoleRow(uid, role) == [user_id |-> uid, role |-> role]

ProfileRow(id, role) == [id |-> id, role |-> role]

\* what a SELECT of the whole table returns to uid
SelectSymptomRows(uid) == {r \in symptoms : symptoms_SELECT(uid, r)}

SelectNoteRows(uid) == {r \in doctor_notes : doctor_notes_SELECT(uid, r)}

SelectMessageRows(uid) == {r \in messages : UsersCanViewTheirOwnMessages(uid, r)}

SelectAssignmentRows(uid) == {r \in assignments : UsersCanViewTheirAssignments(uid, r)}

SelectRoleRows(uid) == {r \in user_roles : UsersCanViewTheirOwnRoles(uid, r)}

SelectProfileRows(uid) == {r \in profiles : UsersCanViewTheirOwnProfile(uid, r)}

Init ==
  /\ users = {}
  /\ profiles = {}
  /\ user_roles = {}
  /\ symptoms = {}
  /\ doctor_notes = {}
  /\ messages = {}
  /\ assignments = {}
  /\ nextSym = 0
  /\ nextNote = 0
  /\ nextMsg = 0
  /\ auth = [b \in Browsers |-> AuthIdle]
  /\ removed = {}
  /\ resp = NoResponse
  /\ searchTerm = ""
  /\ filteredSymptoms = symptomDatabase
  /\ chat = ChatUnmounted
  /\ objects = {}
  /\ ptl = PtlUnmounted
  /\ page = PageClosed

\* ------------------------------------------------ frames of the actions
tablesBut_users_profiles_roles ==
  <<symptoms, doctor_notes, messages, assignments, nextSym, nextNote, nextMsg, removed>>

\* ------------------------------------------------------- identity provider
\* The next id the identity provider hands out: ids are handed out in turn.  The
\* id of a deleted identity stands for a fresh one again, since every reference
\* to auth.users is ON DELETE CASCADE and no row keeps the old id.
NextId ==
  CHOOSE i \in Ids \cup {Cardinality(Ids) + 1} :
    i \notin users /\ \A j \in Ids : j < i => j \in users

\* An identity comes to exist in auth.users: the provider's doing, whichever
\* client asked for it.
CreateIdentity ==
  /\ NextId \in Ids
  /\ users' = users \cup {NextId}
  /\ resp' = Response("createIdentity", Anon, TRUE, {}, <<>>)
  /\ UNCHANGED <<views, profiles, user_roles, auth, tablesBut_users_profiles_roles>>

\* An identity is deleted from auth.users (the provider's admin interface; no
\* client request does it).  Every table references auth.users(id) ON DELETE
\* CASCADE, and doctor_notes references symptoms(id) ON DELETE CASCADE.
DeleteIdentity(u) ==
  /\ u \in users
  /\ users' = users \ {u}
  /\ profiles' = {r \in profiles : r.id # u}
  /\ user_roles' = {r \in user_roles : r.user_id # u}
  /\ symptoms' = {r \in symptoms : r.patient_id # u}
  /\ doctor_notes' = {n \in doctor_notes :
                        /\ n.doctor_id # u
                        /\ \E r \in symptoms : r.id = n.symptom_id /\ r.patient_id # u}
  /\ messages' = {m \in messages : m.sender_id # u /\ m.receiver_id # u}
  /\ assignments' = {a \in assignments : a.patient_id # u /\ a.doctor_id # u}
  /\ removed' = {a \in removed : a.patient_id # u /\ a.doctor_id # u}
  /\ resp' = Response("deleteIdentity", Anon, TRUE, {}, <<>>)
  /\ UNCHANGED <<views, auth, nextSym, nextNote, nextMsg>>

\* ---------------------------------------------------------- storage.objects
\* the tables, counters and the Auth page: what a storage request leaves alone
dbVars ==
  <<users, profiles, user_roles, symptoms, doctor_notes, messages, assignments,
    nextSym, nextNote, nextMsg, auth, removed>>

\* INSERT INTO storage.buckets (id, ...) VALUES ('symptom-photos', ...)
Buckets == {"symptom-photos"}

\* the bucket ids a request names
BucketIds == {"symptom-photos", "avatars"}

\* the object names a request names
Paths == {"1/a.png", "2/7.png", "1", "12/a.png"}

\* the contents of a file
FileData == {"v1", "v2"}

\* auth.uid()::text
uidText(uid) == ToString(uid)

\* string_to_array(str, sep) and str.split(sep) for a separator of one
\* character: the pieces of str, from the one starting at position from on
RECURSIVE SplitOn(_, _, _)
SplitOn(str, sep, from) ==
  IF \E i \in from..Len(str) : SubSeq(str, i, i) = sep
  THEN LET i == CHOOSE i \in from..Len(str) :
                  /\ SubSeq(str, i, i) = sep
                  /\ \A j \in from..(i - 1) : SubSeq(str, j, j) # sep
       IN <<SubSeq(str, from, i - 1)>> \o SplitOn(str, sep, i + 1)
  ELSE <<SubSeq(str, from, Len(str))>>

\* storage.foldername(name): the segments of name but the last
foldername(name) ==
  LET parts == SplitOn(name, "/", 1) IN SubSeq(parts, 1, Len(parts) - 1)

\* auth.uid()::text = (storage.foldername(name))[1]; an index past the array's
\* end and auth.uid() without a session are NULL, and NULL equals nothing
OwnFolder(uid, name) ==
  /\ uid # Anon
  /\ Len(foldername(name)) >= 1
  /\ uidText(uid) = foldername(name)[1]

\* "Users can upload their own symptom photos"
UsersCanUploadTheirOwnSymptomPhotos(uid, bucket_id, name) ==
  bucket_id = "symptom-photos" /\ OwnFolder(uid, name)

\* "Users can view symptom photos"
UsersCanViewSymptomPhotos(uid, bucket_id, name) == bucket_id = "symptom-photos"

\* "Users can update their own symptom photos"
UsersCanUpdateTheirOwnSymptomPhotos(uid, bucket_id, name) ==
  bucket_id = "symptom-photos" /\ OwnFolder(uid, name)

\* (mutant) the policy checking the bucket only
UsersCanDelete_AnyPhoto(uid, bucket_id, name) == bucket_id = "symptom-photos"

\* "Users can delete their own symptom photos"
UsersCanDeleteTheirOwnSymptomPhotos(uid, bucket_id, name) ==
  bucket_id = "symptom-photos" /\ OwnFolder(uid, name)

ObjectRow(name, data) == [name |-> name, data |-> data]

\* what a storage request names: the bucket, the object, and the contents or
\* the new name it sends
ObjectRequest(bucket_id, name, with) ==
  [bucket_id |-> bucket_id, name |-> name, with |-> with]

\* the rows of storage.objects named name in the bucket
ObjectsNamed(bucket_id, name) ==
  IF bucket_id \in Buckets THEN {o \in objects : o.name = name} ELSE {}

\* storage.from(bucket_id).upload(name, data) by uid (no upsert): an INSERT
\* into storage.objects, refused for a name that is taken
UploadObject(uid, bucket_id, name, data) ==
  /\ LET ok == /\ bucket_id \in Buckets
               /\ UsersCanUploadTheirOwnSymptomPhotos(uid, bucket_id, name)
               /\ ObjectsNamed(bucket_id, name) = {}
     IN /\ objects' = IF ok THEN objects \cup {ObjectRow(name, data)} ELSE objects
        /\ resp' = Response("upload", uid, ok, {}, ObjectRequest(bucket_id, name, data))
  /\ UNCHANGED <<dbVars, searchTerm, filteredSymptoms, chat, ptl, page>>

\* storage.from(bucket_id).download(name) by uid, or a GET of the public URL
DownloadObject(uid, bucket_id, name) ==
  /\ LET rows == {o \in ObjectsNamed(bucket_id, name) :
                    UsersCanViewSymptomPhotos(uid, bucket_id, o.name)}
     IN resp' = Response("download", uid, rows # {}, rows, ObjectRequest(bucket_id, name, ""))
  /\ UNCHANGED <<dbVars, searchTerm, filteredSymptoms, chat, objects, ptl, page>>

\* the rows an UPDATE of the object named name by uid works on
ObjectUpdateTargets(uid, bucket_id, name) ==
  {o \in ObjectsNamed(bucket_id, name) :
     /\ UsersCanViewSymptomPhotos(uid, bucket_id, o.name)
     /\ UsersCanUpdateTheirOwnSymptomPhotos(uid, bucket_id, o.name)}

\* storage.from(bucket_id).update(name, data) by uid: the object's contents
\* replaced
UpdateObject(uid, bucket_id, name, data) ==
  /\ LET old == ObjectUpdateTargets(uid, bucket_id, name)
     IN /\ objects' = (objects \ old) \cup {ObjectRow(o.name, data) : o \in old}
        /\ resp' = Response("updateObject", uid, old # {}, old, ObjectRequest(bucket_id, name, data))
  /\ UNCHANGED <<dbVars, searchTerm, filteredSymptoms, chat, ptl, page>>

\* storage.from(bucket_id).move(name, to) by uid: UPDATE ... SET name = to; the
\* UPDATE policy has no WITH CHECK, so its USING is applied to the new row
MoveObject(uid, bucket_id, name, to) ==
  /\ LET old == ObjectUpdateTargets(uid, bucket_id, name)
         ok == /\ old # {}
               /\ UsersCanUpdateTheirOwnSymptomPhotos(uid, bucket_id, to)
               /\ ObjectsNamed(bucket_id, to) = {}
     IN /\ objects' = IF ok THEN (objects \ old) \cup {ObjectRow(to, o.data) : o \in old}
                             ELSE objects
        /\ resp' = Response("moveObject", uid, ok, IF ok THEN old ELSE {},
                            ObjectRequest(bucket_id, name, to))
  /\ UNCHANGED <<dbVars, searchTerm, filteredSymptoms, chat, ptl, page>>

\* the rows a DELETE of the object named name by uid works on
ObjectDeleteTargets(uid, bucket_id, name) ==
  {o \in ObjectsNamed(bucket_id, name) :
     /\ UsersCanViewSymptomPhotos(uid, bucket_id, o.name)
     /\ UsersCanDeleteTheirOwnSymptomPhotos(uid, bucket_id, o.name)}

\* storage.from(bucket_id).remove([name]) by uid
RemoveObject(uid, bucket_id, name) ==
  /\ LET old == ObjectDeleteTargets(uid, bucket_id, name)
     IN /\ objects' = objects \ old
        /\ resp' = Response("removeObject", uid, old # {}, old, ObjectRequest(bucket_id, name, ""))
  /\ UNCHANGED <<dbVars, searchTerm, filteredSymptoms, chat, ptl, page>>

\* the names of the files picked in the form, and the clock's readings
FileNames == {"a.png", "scan"}

Times == {7}

\* file.name.split('.').pop()
fileExt(fileName) == LET parts == SplitOn(fileName, ".", 1) IN parts[Len(parts)]

\* `${user?.id}/${Date.now()}.${fileExt}`; user?.id of no user prints as
\* "undefined"
PhotoFileName(user, now, fileName) ==
  (IF user = Anon THEN "undefined" ELSE ToString(user))
    \o "/" \o ToString(now) \o "." \o fileExt(fileName)

\* Timeline.handlePhotoUpload(file) of the signed-in user (Anon: no user), at
\* clock reading now
HandlePhotoUpload(user, now, fileName, data) ==
  /\ user \in users \cup {Anon}
  /\ LET name == PhotoFileName(user, now, fileName)
         ok == /\ UsersCanUploadTheirOwnSymptomPhotos(user, "symptom-photos", name)
               /\ ObjectsNamed("symptom-photos", name) = {}
     IN /\ objects' = IF ok THEN objects \cup {ObjectRow(name, data)} ELSE objects
        /\ resp' = Response("handlePhotoUpload", user, ok, {},
                            ObjectRequest("symptom-photos", name, data))
  /\ UNCHANGED <<dbVars, searchTerm, filteredSymptoms, chat, ptl, page>>

\* ------------------------------------------------------ Auth.handleAuth
\* handleAuth in browser b, one action per await.  form is the form as it is
\* submitted, auth[b].user the data.user.id that signUp or signIn returned.

\* the values entered in the form's fields
Emails == {"a@b.co", " a@b.co ", "ab.co"}

Passwords == {"secret", "12345"}

Names == {"Al", " A "}

Forms ==
  [isLogin : BOOLEAN, email : Emails, password : Passwords, fullName : Names,
   role : {"patient"}]

\* a sign-up form that passes authSchema, with the role chosen
SignUpForm(role) ==
  [isLogin |-> FALSE, email |-> "a@b.co", password |-> "secret",
   fullName |-> "Al", role |-> role]

\* z.string().email(): one "@" after a local part, no white space, and a
\* domain with a dot followed by two characters or more
IsEmail(str) ==
  \E at \in 2..Len(str) :
    /\ SubSeq(str, at, at) = "@"
    /\ \A i \in 1..Len(str) :
         i # at => SubSeq(str, i, i) \notin WhiteSpace \cup {"@"}
    /\ \E dot \in (at + 2)..(Len(str) - 2) : SubSeq(str, dot, dot) = "."

\* (mutant) the schema with a shorter minimum for the password
authSchema_ShortPassword(form) ==
  /\ IsEmail(trim(form.email))
  /\ Len(form.password) >= 5
  /\ form.isLogin \/ Len(trim(form.fullName)) >= 2

\* authSchema.parse({email, password, fullName: isLogin ? undefined : fullName})
\* does not throw
authSchema(form) ==
  /\ IsEmail(trim(form.email))
  /\ Len(form.password) >= 6
  /\ form.isLogin \/ Len(trim(form.fullName)) >= 2

\* authSchema.parse throws: the catch block's toast, finally setLoading(false).
\* setLoading(true) was not reached and no call is issued.
HandleAuthInvalid(b, form) ==
  /\ auth[b].pc = "idle"
  /\ ~authSchema(form)
  /\ auth' = [auth EXCEPT ![b] = [AuthIdle EXCEPT !.pc = "done", !.form = form,
                                                  !.role = form.role,
                                                  !.toast = "Error"]]
  /\ UNCHANGED <<views, users, profiles, user_roles, resp,
                 tablesBut_users_profiles_roles>>

\* The sign-up form passes the schema, setLoading(true), and await
\* supabase.auth.signUp resolves without error: the identity exists, and the
\* client holds a session or not (the provider may ask for an e-mail
\* confirmation first).  The Profile insert is issued next.
SignUpAuth(b, form, session) ==
  /\ auth[b].pc = "idle"
  /\ authSchema(form)
  /\ ~form.isLogin
  /\ NextId \in Ids
  /\ users' = users \cup {NextId}
  /\ auth' = [auth EXCEPT ![b] = [pc |-> "profile", role |-> form.role,
                                  session |-> session, user |-> NextId,
                                  toast |-> "none", nav |-> "none",
                                  form |-> form, loading |-> TRUE,
                                  calls |-> {"signUp"}]]
  /\ resp' = Response("signUp", Anon, TRUE, {}, <<>>)
  /\ UNCHANGED <<views, profiles, user_roles, tablesBut_users_profiles_roles>>

\* (mutant) the handler going on to its inserts after signUp's error
SignUpAuthError_GoesOn(b, form) ==
  /\ auth[b].pc = "idle"
  /\ authSchema(form)
  /\ ~form.isLogin
  /\ auth' = [auth EXCEPT ![b] = [pc |-> "profile", role |-> form.role,
                                  session |-> FALSE, user |-> Anon,
                                  toast |-> "none", nav |-> "none",
                                  form |-> form, loading |-> TRUE,
                                  calls |-> {"signUp"}]]
  /\ resp' = Response("signUp", Anon, FALSE, {}, <<>>)
  /\ UNCHANGED <<views, users, profiles, user_roles, tablesBut_users_profiles_roles>>

\* await supabase.auth.signUp resolves with an error: throw, the catch block's
\* toast, finally setLoading(false).  No identity, no insert.
SignUpAuthError(b, form) ==
  /\ auth[b].pc = "idle"
  /\ authSchema(form)
  /\ ~form.isLogin
  /\ auth' = [auth EXCEPT ![b] = [pc |-> "done", role |-> form.role,
                                  session |-> FALSE, user |-> Anon,
                                  toast |-> "Error", nav |-> "none",
                                  form |-> form, loading |-> FALSE,
                                  calls |-> {"signUp"}]]
  /\ resp' = Response("signUp", Anon, FALSE, {}, <<>>)
  /\ UNCHANGED <<views, users, profiles, user_roles, tablesBut_users_profiles_roles>>

\* The sign-in form passes the schema, setLoading(true), and await
\* supabase.auth.signInWithPassword resolves with the identity u the
\* credentials belong to.  The select of the profile's role is issued next.
SignInAuth(b, form, u) ==
  /\ auth[b].pc = "idle"
  /\ authSchema(form)
  /\ form.isLogin
  /\ u \in users
  /\ auth' = [auth EXCEPT ![b] = [pc |-> "role", role |-> form.role,
                                  session |-> TRUE, user |-> u,
                                  toast |-> "none", nav |-> "none",
                                  form |-> form, loading |-> TRUE,
                                  calls |-> {"signIn"}]]
  /\ resp' = Response("signIn", Anon, TRUE, {}, <<>>)
  /\ UNCHANGED <<views, users, profiles, user_roles, tablesBut_users_profiles_roles>>

\* await supabase.auth.signInWithPassword resolves with an error: throw, the
\* catch block's toast, finally setLoading(false)
SignInAuthError(b, form) ==
  /\ auth[b].pc = "idle"
  /\ authSchema(form)
  /\ form.isLogin
  /\ auth' = [auth EXCEPT ![b] = [pc |-> "done", role |-> form.role,
                                  session |-> FALSE, user |-> Anon,
                                  toast |-> "Error", nav |-> "none",
                                  form |-> form, loading |-> FALSE,
                                  calls |-> {"signIn"}]]
  /\ resp' = Response("signIn", Anon, FALSE, {}, <<>>)
  /\ UNCHANGED <<views, users, profiles, user_roles, tablesBut_users_profiles_roles>>

\* await supabase.from('profiles').select('role').eq('id', ...).single()
\* resolves; only its data is read (an error, as for no row, leaves profile
\* undefined).  Then navigate, finally setLoading(false).
SignInProfile(b) ==
  /\ auth[b].pc = "role"
  /\ LET rows == {r \in SelectProfileRows(auth[b].user) : r.id = auth[b].user}
     IN /\ resp' = Response("selectProfile", auth[b].user, rows # {}, rows, <<>>)
        /\ auth' = [auth EXCEPT ![b].pc = "done",
                                ![b].calls = @ \cup {"profiles"},
                                ![b].loading = FALSE,
                                ![b].nav = IF \E r \in rows : r.role = "doctor"
                                           THEN "/doctor" ELSE "/dashboard"]
  /\ UNCHANGED <<views, users, profiles, user_roles, tablesBut_users_profiles_roles>>

\* auth.uid() of the requests the sign-up handler of browser b sends
SignUpUid(b) == IF auth[b].session THEN auth[b].user ELSE Anon

\* insert into profiles, as the store decides it
ProfileInsertOk(uid, row) ==
  /\ UsersCanInsertTheirOwnProfile(uid, row)
  /\ row.id \in users
  /\ \A r \in profiles : r.id # row.id

\* insert into user_roles, as the store decides it
RoleInsertOk(uid, row) ==
  /\ user_roles_INSERT(uid, row)
  /\ row.user_id \in users
  /\ row \notin user_roles

\* await supabase.from('profiles').insert(...) resolves; its result is not read.
\* The user_roles insert is issued next.
SignUpProfile(b) ==
  /\ auth[b].pc = "profile"
  /\ LET row == ProfileRow(auth[b].user, auth[b].role)
         ok == ProfileInsertOk(SignUpUid(b), row)
     IN /\ profiles' = IF ok THEN profiles \cup {row} ELSE profiles
        /\ resp' = Response("insertProfile", SignUpUid(b), ok, {}, row)
  /\ auth' = [auth EXCEPT ![b].pc = "roles", ![b].calls = @ \cup {"profiles"}]
  /\ UNCHANGED <<views, users, user_roles, tablesBut_users_profiles_roles>>

\* await supabase.from('user_roles').insert(...) resolves; its result is not
\* read.  Then the "Account created!" toast, navigate, finally setLoading(false).
SignUpRole(b) ==
  /\ auth[b].pc = "roles"
  /\ LET row == RoleRow(auth[b].user, auth[b].role)
         ok == RoleInsertOk(SignUpUid(b), row)
     IN /\ user_roles' = IF ok THEN user_roles \cup {row} ELSE user_roles
        /\ resp' = Response("insertRole", SignUpUid(b), ok, {}, row)
  /\ auth' = [auth EXCEPT ![b].pc = "done",
                          ![b].calls = @ \cup {"user_roles"},
                          ![b].loading = FALSE,
                          ![b].toast = "Account created!",
                          ![b].nav = IF auth[b].role = "doctor" THEN "/doctor"
                                     ELSE "/dashboard"]
  /\ UNCHANGED <<views, users, profiles, tablesBut_users_profiles_roles>>

\* ---------------------------------------------------------------- profiles
\* from('profiles').insert({id, full_name, role}) by uid
InsertProfile(uid, id, role) ==
  /\ uid \in users
  /\ LET row == ProfileRow(id, role)
         ok == ProfileInsertOk(uid, row)
     IN /\ profiles' = IF ok THEN profiles \cup {row} ELSE profiles
        /\ resp' = Response("insertProfile", uid, ok, {}, row)
  /\ UNCHANGED <<views, users, user_roles, auth, tablesBut_users_profiles_roles>>

\* from('profiles').select('*') by uid
SelectProfiles(uid) ==
  /\ uid \in users
  /\ resp' = Response("selectProfiles", uid, TRUE, SelectProfileRows(uid), <<>>)
  /\ UNCHANGED <<views, users, profiles, user_roles, auth, tablesBut_users_profiles_roles>>

\* the rows of profiles an UPDATE ... WHERE id = id of uid works on
ProfileUpdateTargets(uid, id) ==
  {r \in profiles : r.id = id /\ UsersCanViewTheirOwnProfile(uid, r)
                    /\ UsersCanUpdateTheirOwnProfile(uid, r)}

\* the columns a PATCH on profiles may set, one at a time, with a value
ProfilePatches ==
  [col : {"role"}, val : app_role] \cup [col : {"id"}, val : Ids]

\* the row after SET patch.col = patch.val
PatchedProfile(r, patch) ==
  CASE patch.col = "role" -> [r EXCEPT !.role = patch.val]
    [] patch.col = "id" -> [r EXCEPT !.id = patch.val]

\* from('profiles').update({col: val}).eq('id', id) by uid
UpdateProfile(uid, id, patch) ==
  /\ uid \in users
  /\ LET old == ProfileUpdateTargets(uid, id)
         new == {PatchedProfile(r, patch) : r \in old}
         ok == /\ old # {}
               /\ \A r \in new : /\ UsersCanUpdateTheirOwnProfile(uid, r)
                                 /\ r.id \in users
                                 /\ \A q \in profiles \ old : q.id # r.id
     IN /\ profiles' = IF ok THEN (profiles \ old) \cup new ELSE profiles
        /\ resp' = Response("updateProfile", uid, ok, {}, id)
  /\ UNCHANGED <<views, users, user_roles, auth, tablesBut_users_profiles_roles>>

\* the rows of profiles a DELETE ... WHERE id = id of uid works on
ProfileDeleteTargets(uid, id) ==
  {r \in profiles : r.id = id /\ UsersCanViewTheirOwnProfile(uid, r)
                    /\ profiles_DELETE(uid, r)}

\* from('profiles').delete().eq('id', id) by uid
DeleteProfile(uid, id) ==
  /\ uid \in users
  /\ LET old == ProfileDeleteTargets(uid, id)
     IN /\ profiles' = profiles \ old
        /\ resp' = Response("deleteProfile", uid, old # {}, {}, id)
  /\ UNCHANGED <<views, users, user_roles, auth, tablesBut_users_profiles_roles>>

\* ------------------------------------------------------------ user_roles
\* A client's insert into user_roles (any signed-in requester, any row).
InsertRole(uid, u, role) ==
  /\ uid \in users
  /\ LET row == RoleRow(u, role)
         ok == RoleInsertOk(uid, row)
     IN /\ user_roles' = IF ok THEN user_roles \cup {row} ELSE user_roles
        /\ resp' = Response("insertRole", uid, ok, {}, row)
  /\ UNCHANGED <<views, users, profiles, auth, tablesBut_users_profiles_roles>>

\* An insert into user_roles by a session that row-level security does not
\* bind (the table's owner, the service role): only the table's constraints
\* decide it, the foreign key to auth.users and UNIQUE (user_id, role).
ServiceGrantRole(u, role) ==
  /\ u \in users
  /\ Cardinality(user_roles) < MaxGrants
  /\ RoleRow(u, role) \notin user_roles
  /\ user_roles' = user_roles \cup {RoleRow(u, role)}
  /\ resp' = Response("grantRole", Anon, TRUE, {}, <<>>)
  /\ UNCHANGED <<views, users, profiles, auth, tablesBut_users_profiles_roles>>

\* from('user_roles').select('*') by uid
SelectRoles(uid) ==
  /\ uid \in users
  /\ resp' = Response("selectRoles", uid, TRUE, SelectRoleRows(uid), <<>>)
  /\ UNCHANGED <<views, users, profiles, user_roles, auth, tablesBut_users_profiles_roles>>

\* the rows of user_roles an UPDATE ... WHERE user_id = u AND role = role works on
RoleUpdateTargets(uid, u, role) ==
  {r \in user_roles : r = RoleRow(u, role) /\ UsersCanViewTheirOwnRoles(uid, r)
                      /\ user_roles_UPDATE(uid, r)}

\* from('user_roles').update({role: val}).match({user_id: u, role}) by uid
UpdateRole(uid, u, role, val) ==
  /\ uid \in users
  /\ LET old == RoleUpdateTargets(uid, u, role)
         new == {[r EXCEPT !.role = val] : r \in old}
         ok == /\ old # {}
               /\ \A r \in new : user_roles_UPDATE(uid, r) /\ r \notin user_roles \ old
     IN /\ user_roles' = IF ok THEN (user_roles \ old) \cup new ELSE user_roles
        /\ resp' = Response("updateRole", uid, ok, {}, RoleRow(u, role))
  /\ UNCHANGED <<views, users, profiles, auth, tablesBut_users_profiles_roles>>

\* the rows of user_roles a DELETE ... WHERE user_id = u AND role = role works on
RoleDeleteTargets(uid, u, role) ==
  {r \in user_roles : r = RoleRow(u, role) /\ UsersCanViewTheirOwnRoles(uid, r)
                      /\ user_roles_DELETE(uid, r)}

\* from('user_roles').delete().match({user_id: u, role}) by uid
DeleteRole(uid, u, role) ==
  /\ uid \in users
  /\ LET old == RoleDeleteTargets(uid, u, role)
     IN /\ user_roles' = user_roles \ old
        /\ resp' = Response("deleteRole", uid, old # {}, {}, RoleRow(u, role))
  /\ UNCHANGED <<views, users, profiles, auth, tablesBut_users_profiles_roles>>

\* rpc('has_role', {_user_id, _role}) called by requester uid
CallHasRole(uid, u, role) ==
  /\ uid \in users
  /\ resp' = Response("has_role", uid, has_role_as(uid, u, role), {}, RoleRow(u, role))
  /\ UNCHANGED <<views, users, profiles, user_roles, auth, tablesBut_users_profiles_roles>>

\* ---------------------------------------------------------------- symptoms
\* from('symptoms').select('*') by uid
SelectSymptoms(uid) ==
  /\ uid \in users
  /\ resp' = Response("selectSymptoms", uid, TRUE, SelectSymptomRows(uid), <<>>)
  /\ UNCHANGED <<views, users, profiles, user_roles, auth, tablesBut_users_profiles_roles>>

SymptomInsertOk(uid, row) ==
  /\ PatientsCanInsertTheirOwnSymptoms(uid, row)
  /\ row.patient_id \in users

\* from('symptoms').insert({patient_id, title, ...}) by uid
InsertSymptom(uid, pid, title) ==
  /\ uid \in users
  /\ LET row == SymptomRow(nextSym + 1, pid, title)
         ok == SymptomInsertOk(uid, row)
     IN /\ symptoms' = IF ok THEN symptoms \cup {row} ELSE symptoms
        /\ nextSym' = IF ok THEN nextSym + 1 ELSE nextSym
        /\ resp' = Response("insertSymptom", uid, ok, {}, <<>>)
  /\ UNCHANGED <<views, users, profiles, user_roles, auth, doctor_notes, messages,
                 assignments, nextNote, nextMsg, removed>>

\* the rows of symptoms an UPDATE ... WHERE id = sid of uid works on
SymptomUpdateTargets(uid, sid) ==
  {r \in symptoms : r.id = sid /\ symptoms_SELECT(uid, r)
                    /\ PatientsCanUpdateTheirOwnSymptoms(uid, r)}

\* the columns a PATCH on symptoms may set, one at a time, with a value
SymptomPatches ==
  [col : {"title"}, val : Titles] \cup [col : {"patient_id"}, val : Ids]

\* the row after SET patch.col = patch.val
PatchedSymptom(r, patch) ==
  CASE patch.col = "title" -> [r EXCEPT !.title = patch.val]
    [] patch.col = "patient_id" -> [r EXCEPT !.patient_id = patch.val]

\* from('symptoms').update({col: val}).eq('id', sid) by uid.
\* rows: the rows as they were.
UpdateSymptom(uid, sid, patch) ==
  /\ uid \in users
  /\ LET old == SymptomUpdateTargets(uid, sid)
         new == {PatchedSymptom(r, patch) : r \in old}
         ok == /\ old # {}
               /\ \A r \in new : /\ PatientsCanUpdateTheirOwnSymptoms(uid, r)
                                 /\ r.patient_id \in users
     IN /\ symptoms' = IF ok THEN (symptoms \ old) \cup new ELSE symptoms
        /\ resp' = Response("updateSymptom", uid, ok, IF ok THEN old ELSE {}, <<sid, patch.col>>)
  /\ UNCHANGED <<views, users, profiles, user_roles, auth, doctor_notes, messages,
                 assignments, nextSym, nextNote, nextMsg, removed>>

\* the rows of symptoms a DELETE ... WHERE id = sid of uid works on
SymptomDeleteTargets(uid, sid) ==
  {r \in symptoms : r.id = sid /\ symptoms_SELECT(uid, r)
                    /\ PatientsCanDeleteTheirOwnSymptoms(uid, r)}

\* (mutant) the reference without its ON DELETE CASCADE taking the notes
CascadeDoctorNotes_None(old) == doctor_notes

\* doctor_notes.symptom_id ... REFERENCES public.symptoms(id) ON DELETE CASCADE:
\* the notes that stay when the symptom rows old are deleted
CascadeDoctorNotes(old) ==
  {n \in doctor_notes : \A r \in old : n.symptom_id # r.id}

\* from('symptoms').delete().eq('id', sid) by uid;
\* doctor_notes.symptom_id ... ON DELETE CASCADE
DeleteSymptom(uid, sid) ==
  /\ uid \in users
  /\ LET old == SymptomDeleteTargets(uid, sid)
     IN /\ symptoms' = symptoms \ old
        /\ doctor_notes' = CascadeDoctorNotes(old)
        /\ resp' = Response("deleteSymptom", uid, old # {}, old, sid)
  /\ UNCHANGED <<views, users, profiles, user_roles, auth, messages, assignments,
                 nextSym, nextNote, nextMsg, removed>>

\* ---------------------------------------------- patient_doctor_assignments
\* (mutant) the table without its UNIQUE (patient_id, doctor_id)
AssignmentInsertOk_NoUnique(uid, row) ==
  /\ PatientsCanCreateAssignments(uid, row)
  /\ row.patient_id \in users
  /\ row.doctor_id \in users

AssignmentInsertOk(uid, row) ==
  /\ PatientsCanCreateAssignments(uid, row)
  /\ row.patient_id \in users
  /\ row.doctor_id \in users
  /\ row \notin assignments

\* from('patient_doctor_assignments').insert({patient_id, doctor_id}) by uid
InsertAssignment(uid, pid, did) ==
  /\ uid \in users
  /\ LET row == AssignmentRow(pid, did)
         ok == AssignmentInsertOk(uid, row)
     IN /\ assignments' = IF ok THEN assignments \cup {row} ELSE assignments
        /\ removed' = IF ok THEN removed \ {row} ELSE removed
        /\ resp' = Response("insertAssignment", uid, ok, {}, row)
  /\ UNCHANGED <<views, users, profiles, user_roles, auth, symptoms, doctor_notes,
                 messages, nextSym, nextNote, nextMsg>>

\* An assignment row removed by a session that row-level security does not
\* bind (no policy lets a client delete one).
ServiceDeleteAssignment(pid, did) ==
  /\ AssignmentRow(pid, did) \in assignments
  /\ assignments' = assignments \ {AssignmentRow(pid, did)}
  /\ removed' = {AssignmentRow(pid, did)}
  /\ resp' = Response("removeAssignment", Anon, TRUE, {}, <<>>)
  /\ UNCHANGED <<views, users, profiles, user_roles, auth, symptoms, doctor_notes,
                 messages, nextSym, nextNote, nextMsg>>

\* from('patient_doctor_assignments').select('*') by uid
SelectAssignments(uid) ==
  /\ uid \in users
  /\ resp' = Response("selectAssignments", uid, TRUE, SelectAssignmentRows(uid), <<>>)
  /\ UNCHANGED <<views, users, profiles, user_roles, auth, tablesBut_users_profiles_roles>>

\* the rows an UPDATE ... WHERE patient_id = pid AND doctor_id = did of uid works on
AssignmentUpdateTargets(uid, pid, did) ==
  {r \in assignments : r = AssignmentRow(pid, did)
                       /\ UsersCanViewTheirAssignments(uid, r)
                       /\ assignments_UPDATE(uid, r)}

\* from('patient_doctor_assignments').update({doctor_id: val}).match({...}) by uid
UpdateAssignment(uid, pid, did, val) ==
  /\ uid \in users
  /\ LET old == AssignmentUpdateTargets(uid, pid, did)
         new == {[r EXCEPT !.doctor_id = val] : r \in old}
         ok == /\ old # {}
               /\ \A r \in new : /\ assignments_UPDATE(uid, r)
                                 /\ r.doctor_id \in users
                                 /\ r \notin assignments \ old
     IN /\ assignments' = IF ok THEN (assignments \ old) \cup new ELSE assignments
        /\ resp' = Response("updateAssignment", uid, ok, {}, AssignmentRow(pid, did))
  /\ UNCHANGED <<views, users, profiles, user_roles, auth, symptoms, doctor_notes,
                 messages, nextSym, nextNote, nextMsg, removed>>

\* the rows a DELETE ... WHERE patient_id = pid AND doctor_id = did of uid works on
AssignmentDeleteTargets(uid, pid, did) ==
  {r \in assignments : r = AssignmentRow(pid, did)
                       /\ UsersCanViewTheirAssignments(uid, r)
                       /\ assignments_DELETE(uid, r)}

\* from('patient_doctor_assignments').delete().match({...}) by uid
DeleteAssignment(uid, pid, did) ==
  /\ uid \in users
  /\ LET old == AssignmentDeleteTargets(uid, pid, did)
     IN /\ assignments' = assignments \ old
        /\ resp' = Response("deleteAssignment", uid, old # {}, {}, AssignmentRow(pid, did))
  /\ UNCHANGED <<views, users, profiles, user_roles, auth, symptoms, doctor_notes,
                 messages, nextSym, nextNote, nextMsg, removed>>

\* ------------------------------------------------------------ doctor_notes
NoteInsertOk(uid, row) ==
  /\ DoctorsCanInsertNotes(uid, row)
  /\ \E s \in symptoms : s.id = row.symptom_id
  /\ row.doctor_id \in users
  /\ row.progress_status \in progress_statuses \cup {NoStatus}

\* from('doctor_notes').insert({symptom_id, doctor_id, note, progress_status})
\* by uid (PatientTimeline.handleAddNote sends doctor_id: user.id)
InsertNote(uid, sid, did, st) ==
  /\ uid \in users
  /\ LET row == NoteRow(nextNote + 1, sid, did, st)
         ok == NoteInsertOk(uid, row)
     IN /\ doctor_notes' = IF ok THEN doctor_notes \cup {row} ELSE doctor_notes
        /\ nextNote' = IF ok THEN nextNote + 1 ELSE nextNote
        /\ resp' = Response("insertNote", uid, ok, {}, row)
  /\ UNCHANGED <<views, users, profiles, user_roles, auth, symptoms, messages,
                 assignments, nextSym, nextMsg, removed>>

\* from('doctor_notes').select('*') by uid
SelectNotes(uid) ==
  /\ uid \in users
  /\ resp' = Response("selectNotes", uid, TRUE, SelectNoteRows(uid), <<>>)
  /\ UNCHANGED <<views, users, profiles, user_roles, auth, tablesBut_users_profiles_roles>>

\* the rows of doctor_notes an UPDATE ... WHERE id = nid of uid works on
NoteUpdateTargets(uid, nid) ==
  {r \in doctor_notes : r.id = nid /\ doctor_notes_SELECT(uid, r)
                        /\ doctor_notes_UPDATE(uid, r)}

\* the columns a PATCH on doctor_notes may set, one at a time, with a value
NotePatches ==
  [col : {"progress_status"}, val : progress_statuses]
    \cup [col : {"doctor_id"}, val : Ids]

\* the row after SET patch.col = patch.val
PatchedNote(r, patch) ==
  CASE patch.col = "progress_status" -> [r EXCEPT !.progress_status = patch.val]
    [] patch.col = "doctor_id" -> [r EXCEPT !.doctor_id = patch.val]

\* from('doctor_notes').update({col: val}).eq('id', nid) by uid
UpdateNote(uid, nid, patch) ==
  /\ uid \in users
  /\ LET old == NoteUpdateTargets(uid, nid)
         new == {PatchedNote(r, patch) : r \in old}
         ok == /\ old # {}
               /\ \A r \in new : doctor_notes_UPDATE(uid, r) /\ r.doctor_id \in users
     IN /\ doctor_notes' = IF ok THEN (doctor_notes \ old) \cup new ELSE doctor_notes
        /\ resp' = Response("updateNote", uid, ok, {}, nid)
  /\ UNCHANGED <<views, users, profiles, user_roles, auth, symptoms, messages,
                 assignments, nextSym, nextNote, nextMsg, removed>>

\* the rows of doctor_notes a DELETE ... WHERE id = nid of uid works on
NoteDeleteTargets(uid, nid) ==
  {r \in doctor_notes : r.id = nid /\ doctor_notes_SELECT(uid, r)
                        /\ doctor_notes_DELETE(uid, r)}

\* from('doctor_notes').delete().eq('id', nid) by uid
DeleteNote(uid, nid) ==
  /\ uid \in users
  /\ LET old == NoteDeleteTargets(uid, nid)
     IN /\ doctor_notes' = doctor_notes \ old
        /\ resp' = Response("deleteNote", uid, old # {}, {}, nid)
  /\ UNCHANGED <<views, users, profiles, user_roles, auth, symptoms, messages,
                 assignments, nextSym, nextNote, nextMsg, removed>>

\* ---------------------------------------------------------------- messages
MessageInsertOk(uid, row) ==
  /\ UsersCanSendMessages(uid, row)
  /\ row.sender_id \in users
  /\ row.receiver_id \in users

\* from('messages').insert({sender_id, receiver_id, content}) by uid;
\* read BOOLEAN DEFAULT FALSE
InsertMessage(uid, snd, rcv, content) ==
  /\ uid \in users
  /\ LET row == MessageRow(nextMsg + 1, snd, rcv, content, FALSE)
         ok == MessageInsertOk(uid, row)
     IN /\ messages' = IF ok THEN messages \cup {row} ELSE messages
        /\ nextMsg' = IF ok THEN nextMsg + 1 ELSE nextMsg
        /\ resp' = Response("insertMessage", uid, ok, {}, row)
  /\ UNCHANGED <<views, users, profiles, user_roles, auth, symptoms, doctor_notes,
                 assignments, nextSym, nextNote, removed>>

\* from('messages').select('*') by uid
SelectMessages(uid) ==
  /\ uid \in users
  /\ resp' = Response("selectMessages", uid, TRUE, SelectMessageRows(uid), <<>>)
  /\ UNCHANGED <<views, users, profiles, user_roles, auth, tablesBut_users_profiles_roles>>

\* the rows of messages an UPDATE ... WHERE id = mid of uid works on
MessageUpdateTargets(uid, mid) ==
  {r \in messages : r.id = mid /\ UsersCanViewTheirOwnMessages(uid, r)
                    /\ UsersCanUpdateTheirReceivedMessages(uid, r)}

\* the columns a PATCH on messages may set, one at a time, with a value
MessagePatches ==
  [col : {"read"}, val : BOOLEAN] \cup [col : {"content"}, val : Contents]
    \cup [col : {"sender_id", "receiver_id"}, val : Ids]

\* the row after SET patch.col = patch.val
PatchedMessage(r, patch) ==
  CASE patch.col = "read" -> [r EXCEPT !.read = patch.val]
    [] patch.col = "content" -> [r EXCEPT !.content = patch.val]
    [] patch.col = "sender_id" -> [r EXCEPT !.sender_id = patch.val]
    [] patch.col = "receiver_id" -> [r EXCEPT !.receiver_id = patch.val]

\* from('messages').update({col: val}).eq('id', mid) by uid: the policy names
\* no column, so any column may be set.  rows: the rows as they were.
UpdateMessage(uid, mid, patch) ==
  /\ uid \in users
  /\ LET old == MessageUpdateTargets(uid, mid)
         new == {PatchedMessage(r, patch) : r \in old}
         ok == /\ old # {}
               /\ \A r \in new : /\ UsersCanUpdateTheirReceivedMessages(uid, r)
                                 /\ r.sender_id \in users
                                 /\ r.receiver_id \in users
     IN /\ messages' = IF ok THEN (messages \ old) \cup new ELSE messages
        /\ resp' = Response("updateMessage", uid, ok, IF ok THEN old ELSE {}, mid)
  /\ UNCHANGED <<views, users, profiles, user_roles, auth, symptoms, doctor_notes,
                 assignments, nextSym, nextNote, nextMsg, removed>>

\* the rows of messages a DELETE ... WHERE id = mid of uid works on
MessageDeleteTargets(uid, mid) ==
  {r \in messages : r.id = mid /\ UsersCanViewTheirOwnMessages(uid, r)
                    /\ messages_DELETE(uid, r)}

\* from('messages').delete().eq('id', mid) by uid
DeleteMessage(uid, mid) ==
  /\ uid \in users
  /\ LET old == MessageDeleteTargets(uid, mid)
     IN /\ messages' = messages \ old
        /\ resp' = Response("deleteMessage", uid, old # {}, old, mid)
  /\ UNCHANGED <<views, users, profiles, user_roles, auth, symptoms, doctor_notes,
                 assignments, nextSym, nextNote, nextMsg, removed>>

\* -------------------------------------------------------------------- Chat
\* The Chat view of one browser, signed in as chat.user.  selectedDoctor is the
\* id of the Doctor object held (Anon for null), messages the list shown,
\* subs the channels subscribed and never removed (the effect drops the
\* function subscribeToMessages returns), each with the user and the
\* selectedDoctor its callback closed over and the messages ids handed out
\* when it was subscribed; delivered the events handed to the callbacks; data
\* the rows the server read for the fetch in flight; stale the channels
\* subscribed by the view's earlier instances, whose callbacks set the state
\* of a component that is gone.
ChatMounted(u) ==
  [ChatUnmounted EXCEPT !.mounted = TRUE, !.user = u, !.pending = "doctors",
                        !.stale = chat.stale]

\* One more supabase.channel('messages')...subscribe(): the callback closes
\* over user and selectedDoctor as they are in this render.
ChatChannel(user, selectedDoctor) ==
  [id |-> Cardinality(chat.subs \cup chat.stale) + 1, user |-> user,
   selectedDoctor |-> selectedDoctor, from |-> nextMsg]

storeVars ==
  <<users, profiles, user_roles, symptoms, doctor_notes, messages, assignments,
    nextSym, nextNote, nextMsg, auth, removed, resp, searchTerm, filteredSymptoms, objects, ptl, page>>

\* Chat is rendered for the signed-in user; useEffect([user]) calls fetchDoctors
ChatMount(u) ==
  /\ ~chat.mounted
  /\ u \in users
  /\ Cardinality(chat.stale) < MaxSubscriptions
  /\ chat' = ChatMounted(u)
  /\ UNCHANGED storeVars

\* useAuth hands the view a new user object for the same identity;
\* useEffect([user]) calls fetchDoctors again
ChatUserChanged ==
  /\ chat.mounted
  /\ chat.pending = "none"
  /\ Cardinality(chat.subs \cup chat.stale) < MaxSubscriptions
  /\ chat' = [chat EXCEPT !.pending = "doctors"]
  /\ UNCHANGED storeVars

\* The Chat tab is left (Dashboard's TabsContent renders the active tab only):
\* the view is unmounted.  No effect of the view returns a cleanup, so its
\* channels stay subscribed; requests in flight resolve into a component that
\* is gone.
ChatUnmount ==
  /\ chat.mounted
  /\ chat' = [ChatUnmounted EXCEPT !.stale = chat.stale \cup chat.subs]
  /\ UNCHANGED storeVars

\* the rows fetchDoctors' select returns: the assignments of the user as
\* patient, each with the profile its doctor_id names as the user may read it
\* (a set of profiles rows: empty for the null of a profile the policy hides)
ChatDoctorRows(u) ==
  {[doctor_id |-> a.doctor_id,
    profiles |-> {r \in SelectProfileRows(u) : r.id = a.doctor_id}] :
      a \in {b \in SelectAssignmentRows(u) : b.patient_id = u}}

\* the orders in which a select without ORDER BY may return a set of rows
Orderings(S) ==
  {seq \in [1..Cardinality(S) -> S] : \A x \in S : \E i \in DOMAIN seq : seq[i] = x}

\* fetchDoctors' request resolves.  With an error: throw, console.error.  With
\* data: assignment.profiles.id throws on a null profile (console.error, no
\* state set); otherwise setDoctors, and for a list that is not empty
\* setSelectedDoctor(doctorList[0]), a new object, so useEffect([selectedDoctor])
\* runs: fetchMessages() is called and subscribeToMessages() adds a channel.
ChatFetchDoctors(failed) ==
  /\ chat.mounted
  /\ chat.pending = "doctors"
  /\ LET data == ChatDoctorRows(chat.user)
         thrown == failed \/ \E row \in data : row.profiles = {}
     IN IF thrown \/ data = {}
        THEN chat' = [chat EXCEPT !.pending = "none",
                                  !.doctors = IF thrown THEN @ ELSE <<>>]
        ELSE \E doctorList \in Orderings({row.doctor_id : row \in data}) :
               chat' = [chat EXCEPT
                          !.pending = "messages",
                          !.doctors = doctorList,
                          !.selectedDoctor = doctorList[1],
                          !.fetchFor = doctorList[1],
                          !.subs = @ \cup {ChatChannel(chat.user, doctorList[1])}]
  /\ UNCHANGED storeVars

\* the rows of a set of messages in the order of created_at (the order of the ids)
RECURSIVE ByCreatedAt(_)
ByCreatedAt(S) ==
  IF S = {} THEN <<>>
  ELSE LET first == CHOOSE m \in S : \A n \in S : m.id <= n.id
       IN <<first>> \o ByCreatedAt(S \ {first})

\* (mutant) the select with its first or-filter only
MessagesQuery_UserOnly(u, d) ==
  {m \in SelectMessageRows(u) : m.sender_id = u \/ m.receiver_id = u}

\* from('messages').select('*').or(`sender_id.eq.${u},receiver_id.eq.${u}`)
\* .or(`sender_id.eq.${d},receiver_id.eq.${d}`) by u: the two filters are both
\* applied to the rows u may read
MessagesQuery(u, d) ==
  {m \in SelectMessageRows(u) :
     /\ m.sender_id = u \/ m.receiver_id = u
     /\ m.sender_id = d \/ m.receiver_id = d}

\* fetchMessages' request as the view of user u builds it with doctor d
\* selected, and its rows in the order of created_at
FetchMessages(u, d) ==
  /\ u \in users
  /\ resp' = Response("fetchMessages", u, TRUE, MessagesQuery(u, d),
                      [doctor |-> d, data |-> ByCreatedAt(MessagesQuery(u, d))])
  /\ UNCHANGED <<views, users, profiles, user_roles, auth, tablesBut_users_profiles_roles>>

\* The server reads the rows of fetchMessages' select; the response is on its
\* way to the client.
ChatServeMessages ==
  /\ chat.mounted
  /\ chat.pending = "messages"
  /\ chat' = [chat EXCEPT !.pending = "response",
                          !.data = MessagesQuery(chat.user, chat.fetchFor)]
  /\ UNCHANGED storeVars

\* fetchMessages' request resolves: setMessages(data || []), or console.error
ChatFetchMessages(failed) ==
  /\ chat.mounted
  /\ chat.pending = "response"
  /\ chat' = [chat EXCEPT !.pending = "none",
                          !.data = {},
                          !.messages = IF failed THEN @ ELSE ByCreatedAt(chat.data)]
  /\ UNCHANGED storeVars

\* (mutant) the callback's test without the receiver
ChatEventMatches_SenderOnly(newMsg, sub) ==
  newMsg.sender_id = sub.user \/ newMsg.sender_id = sub.selectedDoctor

\* the test of the subscription's callback, on the user and the selectedDoctor
\* it closed over
ChatEventMatches(newMsg, sub) ==
  \/ newMsg.sender_id = sub.user /\ newMsg.receiver_id = sub.selectedDoctor
  \/ newMsg.sender_id = sub.selectedDoctor /\ newMsg.receiver_id = sub.user

\* (mutant) the callback leaving out a row whose id the list already holds
ChatDeliver_Deduplicating(sub, newMsg) ==
  /\ chat.mounted
  /\ sub \in chat.subs
  /\ newMsg \in messages
  /\ newMsg.id > sub.from
  /\ UsersCanViewTheirOwnMessages(chat.user, newMsg)
  /\ <<sub, newMsg.id>> \notin chat.delivered
  /\ chat' = [chat EXCEPT
                !.delivered = @ \cup {<<sub, newMsg.id>>},
                !.messages = IF /\ ChatEventMatches(newMsg, sub)
                                /\ \A i \in 1..Len(@) : @[i].id # newMsg.id
                             THEN Append(@, newMsg) ELSE @]
  /\ UNCHANGED storeVars

\* The change feed hands the INSERT event of message row newMsg to the callback
\* of channel sub: a row inserted after sub was subscribed, that the session's
\* user may read, once per channel.
ChatDeliver(sub, newMsg) ==
  /\ chat.mounted
  /\ sub \in chat.subs
  /\ newMsg \in messages
  /\ newMsg.id > sub.from
  /\ UsersCanViewTheirOwnMessages(chat.user, newMsg)
  /\ <<sub, newMsg.id>> \notin chat.delivered
  /\ chat' = [chat EXCEPT
                !.delivered = @ \cup {<<sub, newMsg.id>>},
                !.messages = IF ChatEventMatches(newMsg, sub)
                             THEN Append(@, newMsg) ELSE @]
  /\ UNCHANGED storeVars

\* --------------------------------------------------------- PatientTimeline
\* The doctor's PatientTimeline view of one browser, signed in as ptl.user.
\* patientId is the prop (Anon: no patient selected, the view not rendered),
\* symptoms the list shown, notes the rows of the notes state (grouped by
\* symptom_id when shown), fetches the calls of fetchData that have not
\* returned, each with the patientId it closed over.

\* what the view's requests leave alone
ptlFrame ==
  <<users, profiles, user_roles, symptoms, doctor_notes, messages, assignments,
    nextSym, nextNote, nextMsg, auth, removed, resp, searchTerm, filteredSymptoms,
    chat, objects, page>>

\* a call of fetchData, awaiting its first request
PtlFetch(patientId) ==
  [patientId |-> patientId, stage |-> "symptoms", symptomsData |-> <<>>]

\* the rows of a set in descending order of created_at (of the ids)
RECURSIVE ByCreatedAtDescending(_)
ByCreatedAtDescending(S) ==
  IF S = {} THEN <<>>
  ELSE LET first == CHOOSE m \in S : \A n \in S : m.id >= n.id
       IN <<first>> \o ByCreatedAtDescending(S \ {first})

\* DoctorDashboard: setSelectedPatient(patient) on the click on a patient's
\* button; PatientTimeline is rendered with (or re-rendered in place with the
\* new) patientId and useEffect([patientId]) calls fetchData.
SelectPatient(u, p) ==
  /\ u \in users
  /\ p \in users
  /\ ptl.user \in {Anon, u}
  /\ p # ptl.patientId
  /\ ptl.selections < MaxSelections
  /\ ptl' = [ptl EXCEPT !.user = u, !.patientId = p, !.selections = @ + 1,
                        !.fetches = @ \cup {PtlFetch(p)}]
  /\ UNCHANGED ptlFrame

\* fetchData's select on symptoms resolves.  With an error: throw,
\* console.error.  With no row: setSymptoms([]), the notes state untouched.
\* Otherwise the select on doctor_notes is sent.  finally setLoading(false).
FetchDataSymptoms(f, failed) ==
  /\ f \in ptl.fetches
  /\ f.stage = "symptoms"
  /\ LET data == {r \in SelectSymptomRows(ptl.user) : r.patient_id = f.patientId}
     IN IF failed
        THEN ptl' = [ptl EXCEPT !.fetches = @ \ {f}, !.loading = FALSE]
        ELSE IF data = {}
        THEN ptl' = [ptl EXCEPT !.fetches = @ \ {f}, !.loading = FALSE,
                                !.symptoms = <<>>]
        ELSE ptl' = [ptl EXCEPT
                       !.fetches = (@ \ {f}) \cup
                         {[f EXCEPT !.stage = "notes",
                                    !.symptomsData = ByCreatedAtDescending(data)]}]
  /\ UNCHANGED ptlFrame

\* fetchData's select on doctor_notes resolves.  With an error: throw,
\* console.error.  Otherwise setNotes(groupedNotes) and
\* setSymptoms(symptomsData).  finally setLoading(false).
FetchDataNotes(f, failed) ==
  /\ f \in ptl.fetches
  /\ f.stage = "notes"
  /\ LET symptomIds == {f.symptomsData[i].id : i \in 1..Len(f.symptomsData)}
         notesData == {n \in SelectNoteRows(ptl.user) : n.symptom_id \in symptomIds}
     IN IF failed
        THEN ptl' = [ptl EXCEPT !.fetches = @ \ {f}, !.loading = FALSE]
        ELSE ptl' = [ptl EXCEPT !.fetches = @ \ {f}, !.loading = FALSE,
                                !.notes = notesData,
                                !.symptoms = f.symptomsData]
  /\ UNCHANGED ptlFrame

\* handleAddNote(symptomId) on a symptom shown: the insert of the user's note;
\* accepted, fetchData() is called again, refused, the toast.
PtlAddNote(sid) ==
  /\ ptl.user # Anon
  /\ \E i \in 1..Len(ptl.symptoms) : ptl.symptoms[i].id = sid
  /\ LET row == NoteRow(nextNote + 1, sid, ptl.user, "stable")
         ok == NoteInsertOk(ptl.user, row)
     IN /\ doctor_notes' = IF ok THEN doctor_notes \cup {row} ELSE doctor_notes
        /\ nextNote' = IF ok THEN nextNote + 1 ELSE nextNote
        /\ resp' = Response("insertNote", ptl.user, ok, {}, row)
        /\ ptl' = IF ok THEN [ptl EXCEPT !.fetches = @ \cup {PtlFetch(ptl.patientId)}]
                        ELSE ptl
  /\ UNCHANGED <<users, profiles, user_roles, symptoms, messages, assignments,
                 nextSym, nextMsg, auth, removed, searchTerm, filteredSymptoms,
                 chat, objects, page>>

\* ------------------------------------------------------------------ pages
\* The routes /auth, /dashboard and /doctor in one browser.

\* what a step of the pages leaves alone
pageFrame ==
  <<users, profiles, user_roles, symptoms, doctor_notes, messages, assignments,
    nextSym, nextNote, nextMsg, auth, removed, resp, searchTerm, filteredSymptoms,
    chat, objects, ptl>>

Routes == {"/auth", "/dashboard", "/doctor"}

\* a route rendered anew: DoctorDashboard's state hooks at their initial values
Mounted(path) ==
  [page EXCEPT !.path = path, !.loadingPatients = TRUE, !.patients = <<>>,
               !.fetch = "idle"]

\* The browser opens a route (by its URL), or Auth.handleAuth calls navigate
\* with /doctor or /dashboard; useAuth is loading.
OpenPage(path) ==
  /\ page.path \in {"closed", "/auth"}
  /\ path \in Routes
  /\ page.path = "/auth" => path # "/auth"
  /\ page' = [Mounted(path) EXCEPT !.loading = TRUE, !.user = Anon,
                                   !.userRole = "none", !.hops = 0]
  /\ UNCHANGED pageFrame

\* useAuth settles: loading false, and no user, or user u with the role it
\* found for it or none
AuthSettled(u, role) ==
  /\ page.path \in Routes
  /\ page.loading
  /\ u \in users \cup {Anon}
  /\ u = Anon => role = "none"
  /\ page' = [page EXCEPT !.loading = FALSE, !.user = u, !.userRole = role]
  /\ UNCHANGED pageFrame

\* (mutant) Dashboard sending the patient, not the doctor, to /doctor
DashboardRedirect_Patient(g) ==
  IF ~g.loading /\ g.user = Anon THEN "/auth"
  ELSE IF ~g.loading /\ g.userRole = "patient" THEN "/doctor"
  ELSE "none"

\* Dashboard's redirect effect: the route it navigates to, or "none"
DashboardRedirect(g) ==
  IF ~g.loading /\ g.user = Anon THEN "/auth"
  ELSE IF ~g.loading /\ g.userRole = "doctor" THEN "/doctor"
  ELSE "none"

\* DoctorDashboard's redirect effect: the route it navigates to, or "none"
DoctorDashboardRedirect(g) ==
  IF ~g.loading /\ g.user = Anon THEN "/auth"
  ELSE IF ~g.loading /\ g.userRole = "patient" THEN "/dashboard"
  ELSE "none"

\* the redirect of the page shown (Auth has no redirect effect)
PageRedirect(g) ==
  CASE g.path = "/dashboard" -> DashboardRedirect(g)
    [] g.path = "/doctor" -> DoctorDashboardRedirect(g)
    [] OTHER -> "none"

\* the redirect effect of the page shown runs and navigates
Redirect ==
  /\ PageRedirect(page) # "none"
  /\ page.hops < MaxHops
  /\ page' = [Mounted(PageRedirect(page)) EXCEPT !.hops = page.hops + 1]
  /\ UNCHANGED pageFrame

\* DoctorDashboard's useEffect([user, userRole]): fetchPatients() for a user
\* with the role doctor
FetchPatientsEffect ==
  /\ page.path = "/doctor"
  /\ page.user # Anon
  /\ page.userRole = "doctor"
  /\ page.fetch = "idle"
  /\ page' = [page EXCEPT !.fetch = "sent"]
  /\ UNCHANGED pageFrame

\* the rows fetchPatients' select returns: the assignments of the user as
\* doctor, each with the profile its patient_id names as the user may read it
PatientRows(u) ==
  {[patient_id |-> a.patient_id,
    profiles |-> {r \in SelectProfileRows(u) : r.id = a.patient_id}] :
      a \in {b \in SelectAssignmentRows(u) : b.doctor_id = u}}

\* fetchPatients' request resolves.  With an error, or a null profile under
\* assignment.profiles.id: console.error.  Otherwise setPatients.  finally
\* setLoadingPatients(false).
FetchPatients(failed) ==
  /\ page.path = "/doctor"
  /\ page.fetch = "sent"
  /\ LET data == PatientRows(page.user)
         thrown == failed \/ \E row \in data : row.profiles = {}
     IN \E patientList \in Orderings({row.patient_id : row \in data}) :
          page' = [page EXCEPT !.fetch = "done", !.loadingPatients = FALSE,
                               !.patients = IF thrown THEN @ ELSE patientList]
  /\ UNCHANGED pageFrame

\* --------------------------------------------------------- specifications
\* The store is one state machine; each specification below runs the requests
\* of one group of tables, with the identities created by sign-up.

\* messages
NextMessages ==
  \/ CreateIdentity
  \/ nextMsg < MaxMessages
       /\ \E uid, snd, rcv \in Ids : InsertMessage(uid, snd, rcv, "hello")
  \/ \E uid \in Ids : SelectMessages(uid)
  \/ \E uid \in Ids, mid \in 1..MaxMessages, patch \in MessagePatches :
       UpdateMessage(uid, mid, patch)
  \/ \E uid \in Ids, mid \in 1..MaxMessages : DeleteMessage(uid, mid)

SpecMessages == Init /\ [][NextMessages]_vars

\* symptoms and the assignments and role grants that decide who reads them
NextSymptoms ==
  \/ CreateIdentity
  \/ \E u \in Ids : ServiceGrantRole(u, "doctor")
  \/ nextSym < MaxSymptoms /\ \E uid, pid \in Ids : InsertSymptom(uid, pid, "Rash")
  \/ \E uid \in Ids : SelectSymptoms(uid)
  \/ \E uid \in Ids, sid \in 1..MaxSymptoms, patch \in SymptomPatches :
       UpdateSymptom(uid, sid, patch)
  \/ \E uid \in Ids, sid \in 1..MaxSymptoms : DeleteSymptom(uid, sid)
  \/ \E uid, pid, did \in Ids :
       /\ \/ Cardinality(assignments) < MaxAssignments
          \/ AssignmentRow(pid, did) \in assignments
       /\ InsertAssignment(uid, pid, did)
  \/ \E pid, did \in Ids : ServiceDeleteAssignment(pid, did)

SpecSymptoms == Init /\ [][NextSymptoms]_vars

\* doctor notes, with the symptoms, assignments and role grants they rest on
NextNotes ==
  \/ CreateIdentity
  \/ \E u \in Ids : ServiceGrantRole(u, "doctor")
  \/ nextSym < MaxSymptoms /\ \E uid, pid \in Ids : InsertSymptom(uid, pid, "Rash")
  \/ \E uid, pid, did \in Ids :
       /\ \/ Cardinality(assignments) < MaxAssignments
          \/ AssignmentRow(pid, did) \in assignments
       /\ InsertAssignment(uid, pid, did)
  \/ /\ nextNote < MaxNotes
     /\ \E uid, did \in Ids, sid \in 1..MaxSymptoms, st \in progress_statuses :
          InsertNote(uid, sid, did, st)
  \/ \E uid \in Ids : SelectNotes(uid)
  \/ \E uid \in Ids, nid \in 1..MaxNotes, patch \in NotePatches :
       UpdateNote(uid, nid, patch)
  \/ \E uid \in Ids, nid \in 1..MaxNotes : DeleteNote(uid, nid)
  \/ \E uid \in Ids, sid \in 1..MaxSymptoms : DeleteSymptom(uid, sid)
  \/ \E u \in Ids : DeleteIdentity(u)

SpecNotes == Init /\ [][NextNotes]_vars

\* the assignments
NextAssignments ==
  \/ CreateIdentity
  \/ \E uid, pid, did \in Ids :
       /\ \/ Cardinality(assignments) < MaxAssignments
          \/ AssignmentRow(pid, did) \in assignments
       /\ InsertAssignment(uid, pid, did)
  \/ \E uid \in Ids : SelectAssignments(uid)
  \/ \E uid, pid, did, val \in Ids : UpdateAssignment(uid, pid, did, val)
  \/ \E uid, pid, did \in Ids : DeleteAssignment(uid, pid, did)

SpecAssignments == Init /\ [][NextAssignments]_vars

\* assignment inserts in every order, repeated, with two pairs in the table
NextUnique ==
  \/ CreateIdentity
  \/ \E uid, pid, did \in Ids :
       /\ \/ Cardinality(assignments) < MaxUniqueAssignments
          \/ AssignmentRow(pid, did) \in assignments
       /\ InsertAssignment(uid, pid, did)
  \/ \E uid \in Ids : SelectAssignments(uid)
  \/ \E u \in Ids : DeleteIdentity(u)

SpecUnique == Init /\ [][NextUnique]_vars

\* the photo store: every storage request by every requester, signed in or
\* not, and the timeline's upload
NextStorage ==
  \/ CreateIdentity
  \/ /\ Cardinality(objects) < MaxObjects
     /\ \E uid \in Ids \cup {Anon}, b \in BucketIds, name \in Paths, data \in FileData :
          (uid \in users \cup {Anon}) /\ UploadObject(uid, b, name, data)
  \/ \E uid \in Ids \cup {Anon}, b \in BucketIds, name \in Paths :
       (uid \in users \cup {Anon}) /\ DownloadObject(uid, b, name)
  \/ \E uid \in Ids \cup {Anon}, b \in BucketIds, name \in Paths, data \in FileData :
       (uid \in users \cup {Anon}) /\ UpdateObject(uid, b, name, data)
  \/ \E uid \in Ids \cup {Anon}, b \in BucketIds, name, to \in Paths :
       (uid \in users \cup {Anon}) /\ MoveObject(uid, b, name, to)
  \/ \E uid \in Ids \cup {Anon}, b \in BucketIds, name \in Paths :
       (uid \in users \cup {Anon}) /\ RemoveObject(uid, b, name)
  \/ /\ Cardinality(objects) < MaxObjects
     /\ \E user \in Ids \cup {Anon}, now \in Times, f \in FileNames :
          HandlePhotoUpload(user, now, f, "v1")

SpecStorage == Init /\ [][NextStorage]_vars

\* the chat's message query over messages between every pair of identities
NextQuery ==
  \/ CreateIdentity
  \/ nextMsg < MaxQueryMessages
       /\ \E uid, snd, rcv \in Ids : InsertMessage(uid, snd, rcv, "hello")
  \/ \E u, d \in Ids : FetchMessages(u, d)

SpecQuery == Init /\ [][NextQuery]_vars

\* the doctor's patient timeline over the symptoms and notes of two patients
NextTimeline ==
  \/ CreateIdentity
  \/ \E u \in Ids : ServiceGrantRole(u, "doctor")
  \/ nextSym < MaxTimelineSymptoms /\ \E uid \in Ids : InsertSymptom(uid, uid, "Rash")
  \/ \E uid, did \in Ids :
       /\ \/ Cardinality(assignments) < MaxAssignments
          \/ AssignmentRow(uid, did) \in assignments
       /\ InsertAssignment(uid, uid, did)
  \/ \E u, p \in Ids : SelectPatient(u, p)
  \/ \E f \in ptl.fetches, failed \in BOOLEAN : FetchDataSymptoms(f, failed)
  \/ \E f \in ptl.fetches, failed \in BOOLEAN : FetchDataNotes(f, failed)
  \/ nextNote < MaxNotes /\ \E sid \in 1..MaxTimelineSymptoms : PtlAddNote(sid)

SpecTimeline == Init /\ [][NextTimeline]_vars

\* the pages, with the profiles and assignments fetchPatients reads
NextPages ==
  \/ CreateIdentity
  \/ \E uid \in Ids, role \in app_role : InsertProfile(uid, uid, role)
  \/ \E uid, did \in Ids :
       /\ \/ Cardinality(assignments) < MaxAssignments
          \/ AssignmentRow(uid, did) \in assignments
       /\ InsertAssignment(uid, uid, did)
  \/ \E path \in Routes : OpenPage(path)
  \/ \E u \in Ids \cup {Anon}, role \in app_role \cup {"none"} : AuthSettled(u, role)
  \/ Redirect
  \/ FetchPatientsEffect
  \/ \E failed \in BOOLEAN : FetchPatients(failed)

SpecPages == Init /\ [][NextPages]_vars

\* the pages with their effects run: React runs an effect that is due
SpecPagesFair ==
  /\ SpecPages
  /\ WF_vars(Redirect)
  /\ WF_vars(FetchPatientsEffect)
  /\ WF_vars(\E failed \in BOOLEAN : FetchPatients(failed))

\* the profiles
NextProfiles ==
  \/ CreateIdentity
  \/ \E uid, id \in Ids, role \in app_role : InsertProfile(uid, id, role)
  \/ \E uid \in Ids : SelectProfiles(uid)
  \/ \E uid, id \in Ids, patch \in ProfilePatches : UpdateProfile(uid, id, patch)
  \/ \E uid, id \in Ids : DeleteProfile(uid, id)

SpecProfiles == Init /\ [][NextProfiles]_vars

\* the symptom finder: a key typed, a character erased, a text pasted
NextFinder ==
  \/ \E c \in Keys : Len(searchTerm) < MaxTermLen /\ handleSearch(searchTerm \o c)
  \/ searchTerm # "" /\ handleSearch(SubSeq(searchTerm, 1, Len(searchTerm) - 1))
  \/ \E term \in Pasted : handleSearch(term)

SpecFinder == Init /\ [][NextFinder]_vars

\* the Chat view of one browser, with the requests of the clients that fill
\* the tables it reads (each with its own id as owner, patient and sender)
NextChat ==
  \/ CreateIdentity
  \/ \E uid \in Ids : InsertProfile(uid, uid, "patient")
  \/ \E uid, did \in Ids :
       /\ \/ Cardinality(assignments) < MaxAssignments
          \/ AssignmentRow(uid, did) \in assignments
       /\ InsertAssignment(uid, uid, did)
  \/ nextMsg < MaxMessages /\ \E uid, rcv \in Ids : InsertMessage(uid, uid, rcv, "hello")
  \/ \E u \in Ids : ChatMount(u)
  \/ ChatUserChanged
  \/ \E failed \in BOOLEAN : ChatFetchDoctors(failed)
  \/ ChatServeMessages
  \/ \E failed \in BOOLEAN : ChatFetchMessages(failed)
  \/ ChatUnmount
  \/ \E sub \in chat.subs, newMsg \in messages : ChatDeliver(sub, newMsg)

SpecChat == Init /\ [][NextChat]_vars

\* symptoms with the notes attached to them: two symptoms and two notes, so
\* that a delete meets notes of its symptom and of another
NextCascade ==
  \/ CreateIdentity
  \/ \E u \in Ids : ServiceGrantRole(u, "doctor")
  \/ /\ nextSym < MaxCascadeSymptoms
     /\ \E uid, pid \in Ids : InsertSymptom(uid, pid, "Rash")
  \/ /\ nextNote < MaxCascadeNotes
     /\ \E uid \in Ids, sid \in 1..MaxCascadeSymptoms :
          InsertNote(uid, sid, uid, "stable")
  \/ \E uid \in Ids, sid \in 1..MaxCascadeSymptoms : DeleteSymptom(uid, sid)
  \/ \E u \in Ids : DeleteIdentity(u)

SpecCascade == Init /\ [][NextCascade]_vars

\* the Auth page's handler in two browsers, with every form
AuthBrowsers == {"b1", "b2"}

NextAuth ==
  \/ \E b \in AuthBrowsers, form \in Forms : HandleAuthInvalid(b, form)
  \/ \E b \in AuthBrowsers, form \in Forms, session \in BOOLEAN :
       SignUpAuth(b, form, session)
  \/ \E b \in AuthBrowsers, form \in Forms : SignUpAuthError(b, form)
  \/ \E b \in AuthBrowsers : SignUpProfile(b)
  \/ \E b \in AuthBrowsers : SignUpRole(b)
  \/ \E b \in AuthBrowsers, form \in Forms, u \in Ids : SignInAuth(b, form, u)
  \/ \E b \in AuthBrowsers, form \in Forms : SignInAuthError(b, form)
  \/ \E b \in AuthBrowsers : SignInProfile(b)

SpecAuth == Init /\ [][NextAuth]_vars

\* the role grants and the authorization predicate
NextRoles ==
  \/ CreateIdentity
  \/ \E uid, u \in Ids, role \in app_role : InsertRole(uid, u, role)
  \/ \E u \in Ids, role \in app_role : ServiceGrantRole(u, role)
  \/ \E uid, u \in Ids, role \in app_role : CallHasRole(uid, u, role)
  \/ \E uid \in Ids : SelectRoles(uid)
  \/ \E uid, u \in Ids, role, val \in app_role : UpdateRole(uid, u, role, val)
  \/ \E uid, u \in Ids, role \in app_role : DeleteRole(uid, u, role)

SpecRoles == Init /\ [][NextRoles]_vars

\* the Auth page's sign-up, one handler run per browser
NextSignUp ==
  \/ \E b \in Browsers, role \in app_role, session \in BOOLEAN :
       SignUpAuth(b, SignUpForm(role), session)
  \/ \E b \in Browsers, role \in app_role : SignUpAuthError(b, SignUpForm(role))
  \/ \E b \in Browsers : SignUpProfile(b)
  \/ \E b \in Browsers : SignUpRole(b)

SpecSignUp == Init /\ [][NextSignUp]_vars

\* the requests the views send, as they send them (the signed-in user's own id
\* as patient_id and doctor_id), with sign-up holding a session throughout
NextApp ==
  \/ \E b \in Browsers, role \in app_role : SignUpAuth(b, SignUpForm(role), TRUE)
  \/ \E b \in Browsers : SignUpProfile(b)
  \/ \E b \in Browsers : SignUpRole(b)
  \/ nextSym < MaxSymptoms /\ \E uid \in Ids : InsertSymptom(uid, uid, "Rash")
  \/ \E uid \in Ids : SelectSymptoms(uid)
  \/ \E uid, did \in Ids :
       /\ \/ Cardinality(assignments) < MaxAssignments
          \/ AssignmentRow(uid, did) \in assignments
       /\ InsertAssignment(uid, uid, did)
  \/ /\ nextNote < MaxNotes
     /\ \E uid \in Ids, sid \in 1..MaxSymptoms : InsertNote(uid, sid, uid, "stable")
  \/ \E uid \in Ids : SelectNotes(uid)

SpecApp == Init /\ [][NextApp]_vars

\* =================================================================== claims
HoldsDoctorRole(u) == RoleRow(u, "doctor") \in user_roles

Assigned(p, d) == AssignmentRow(p, d) \in assignments

\* C2 as stated: for every identity D and every symptom row of patient P, a
\* select by D returns the row iff Assignment(P,D) exists and D holds the doctor
\* role.  (It fails for D = P: the owner reads the row with no assignment.)
C2_AsStated ==
  resp.op = "selectSymptoms" =>
    \A s \in symptoms :
      s \in resp.rows <=> (Assigned(s.patient_id, resp.uid) /\ HoldsDoctorRole(resp.uid))

\* C2 amended: for every identity D other than the owner P, a select by D returns
\* P's symptom row iff Assignment(P,D) exists and D holds the doctor role.
C2_SelectByNonOwner ==
  resp.op = "selectSymptoms" =>
    \A s \in symptoms :
      s.patient_id # resp.uid =>
        (s \in resp.rows <=>
           (Assigned(s.patient_id, resp.uid) /\ HoldsDoctorRole(resp.uid)))

\* C2 witness: a select answered an assigned doctor with a patient's row
C2_Witness ==
  /\ resp.op = "selectSymptoms"
  /\ \E s \in resp.rows : s.patient_id # resp.uid

\* C6 as stated: a patient P can always select, update and delete the rows it
\* owns, and never selects, updates or deletes a row of another patient,
\* whatever roles P holds.  (The select fails for an assigned doctor.)
C6_AsStated ==
  /\ resp.op = "selectSymptoms" =>
       resp.rows = {s \in symptoms : s.patient_id = resp.uid}
  /\ resp.op \in {"updateSymptom", "deleteSymptom"} /\ resp.ok =>
       \A r \in resp.rows : r.patient_id = resp.uid

\* C6 amended: P always selects, updates (keeping itself as owner) and deletes
\* the rows it owns; P never updates or deletes a row of another patient,
\* whatever roles P holds; and P selects a row of another patient Q only if P
\* holds the doctor role and Assignment(Q,P) exists.
C6_OwnerOnlyWrites ==
  /\ resp.op = "selectSymptoms" =>
       /\ \A s \in symptoms : s.patient_id = resp.uid => s \in resp.rows
       /\ \A s \in resp.rows :
            s.patient_id # resp.uid =>
              HoldsDoctorRole(resp.uid) /\ Assigned(s.patient_id, resp.uid)
  /\ resp.op \in {"updateSymptom", "deleteSymptom"} /\ resp.ok =>
       resp.rows # {} /\ \A r \in resp.rows : r.patient_id = resp.uid
  /\ resp.op = "deleteSymptom" /\ ~resp.ok =>
       \A s \in symptoms : ~(s.id = resp.arg /\ s.patient_id = resp.uid)
  /\ resp.op = "updateSymptom" /\ ~resp.ok /\ resp.arg[2] = "title" =>
       \A s \in symptoms : ~(s.id = resp.arg[1] /\ s.patient_id = resp.uid)

\* C6 witness: an owner who also holds the doctor role updated its own row
C6_Witness ==
  /\ resp.op = "updateSymptom"
  /\ resp.ok
  /\ HoldsDoctorRole(resp.uid)

\* C8: after Assignment(P,D) is removed (and while it stays absent), a select by
\* D, D other than P, returns none of P's symptom rows.
C8_RemovalRevokes ==
  resp.op = "selectSymptoms" =>
    \A a \in removed :
      (resp.uid = a.doctor_id /\ a.doctor_id # a.patient_id) =>
        \A s \in resp.rows : s.patient_id # a.patient_id

\* C8 witness: D holds the doctor role, P owns a symptom, Assignment(P,D) was
\* removed, and D's select came back without it
C8_Witness ==
  /\ resp.op = "selectSymptoms"
  /\ HoldsDoctorRole(resp.uid)
  /\ \E a \in removed :
       /\ a.doctor_id = resp.uid
       /\ a.patient_id # resp.uid
       /\ \E s \in symptoms : s.patient_id = a.patient_id
       /\ \A s \in resp.rows : s.patient_id # a.patient_id

\* C1: has_role(I,R) is true iff a user_roles row with exactly (I,R) exists,
\* whatever other rows exist and whoever the requester is.
C1_HasRoleIffRow ==
  resp.op = "has_role" => (resp.ok <=> resp.arg \in user_roles)

\* C1 witness: has_role answered true to a requester other than I, while
\* user_roles also holds a row other than (I,R)
C1_Witness ==
  /\ resp.op = "has_role"
  /\ resp.ok
  /\ resp.uid # resp.arg.user_id
  /\ \E g \in user_roles : g # resp.arg

\* C3 as stated (for a symptom S of a patient other than D): a note insert by D
\* against S succeeds iff D holds the doctor role, D is the named doctor and an
\* Assignment links D to S's owner.
C3_AsStated ==
  ( /\ resp.op = "insertNote"
    /\ \E s \in symptoms : s.id = resp.arg.symptom_id /\ s.patient_id # resp.uid ) =>
    (resp.ok <=>
       /\ HoldsDoctorRole(resp.uid)
       /\ resp.arg.doctor_id = resp.uid
       /\ \E s \in symptoms :
            s.id = resp.arg.symptom_id /\ Assigned(s.patient_id, resp.uid))

\* C4 as stated (for a sign-up that holds a session): once sign-up with role R
\* has shown "Account created!", the Profile row with role R and the RoleGrant
\* row (identity, R) exist, and the handler's RoleGrant insert was accepted.
C4_AsStated ==
  /\ \A b \in Browsers :
       (auth[b].toast = "Account created!" /\ auth[b].session) =>
         /\ ProfileRow(auth[b].user, auth[b].role) \in profiles
         /\ RoleRow(auth[b].user, auth[b].role) \in user_roles
  /\ (resp.op = "insertRole" /\ resp.uid # Anon) => resp.ok

\* identity u went through a sign-up with this role that ended in "Account created!"
SignedUpAs(u, role) ==
  \E b \in Browsers :
    auth[b].user = u /\ auth[b].role = role /\ auth[b].toast = "Account created!"

\* C5 as stated: with patient p and doctor d signed up through the application,
\* p has Profile and RoleGrant(patient); d's select returns exactly the symptoms
\* of the patients assigned to d (none before the assignment, p's one after);
\* d's note insert with progress_status "stable" on an assigned patient's
\* symptom succeeds; and p's select of notes returns the notes on p's symptoms.
C5_AsStated ==
  \A p, d \in Ids :
    ( /\ p # d
      /\ SignedUpAs(p, "patient")
      /\ SignedUpAs(d, "doctor") ) =>
      /\ ProfileRow(p, "patient") \in profiles
      /\ RoleRow(p, "patient") \in user_roles
      /\ (resp.op = "selectSymptoms" /\ resp.uid = d) =>
           resp.rows = {s \in symptoms : Assigned(s.patient_id, d) \/ s.patient_id = d}
      /\ ( /\ resp.op = "insertNote" /\ resp.uid = d
           /\ \E s \in symptoms : s.id = resp.arg.symptom_id /\ s.patient_id = p
           /\ Assigned(p, d) ) => resp.ok
      /\ (resp.op = "selectNotes" /\ resp.uid = p) =>
           resp.rows = {n \in doctor_notes :
                          \E s \in symptoms : s.id = n.symptom_id /\ s.patient_id = p}

\* C7: a select of messages by U returns exactly the rows whose sender_id or
\* receiver_id is U; a third party gets none of a conversation's rows.
C7_SelectOwnMessages ==
  resp.op = "selectMessages" =>
    resp.rows = {m \in messages : m.sender_id = resp.uid \/ m.receiver_id = resp.uid}

\* C7 witness: a message exists and a third party's select came back empty
C7_Witness ==
  /\ resp.op = "selectMessages"
  /\ messages # {}
  /\ resp.rows = {}

\* C9 as stated (for a message of another sender): an update permitted to the
\* receiver leaves content, sender_id and receiver_id as they were, and only
\* the receiver updates the row.
C9_AsStated ==
  (resp.op = "updateMessage" /\ resp.ok) =>
    \A old \in resp.rows :
      old.sender_id # resp.uid =>
      /\ old.receiver_id = resp.uid
      /\ \E m \in messages :
           /\ m.id = old.id
           /\ m.content = old.content
           /\ m.sender_id = old.sender_id
           /\ m.receiver_id = old.receiver_id

\* C10 as stated: a message insert by U succeeds iff the row's sender_id is U,
\* for any receiver_id; and no requester deletes a message.
C10_AsStated ==
  /\ resp.op = "insertMessage" => (resp.ok <=> resp.arg.sender_id = resp.uid)
  /\ resp.op = "deleteMessage" => ~resp.ok
  /\ \A i \in 1..nextMsg : \E m \in messages : m.id = i

\* C10 amended: a message insert by U succeeds iff the row's sender_id is U and
\* its receiver_id is an existing identity (no other tie between the two is
\* asked for); no requester inserts a message naming another identity as
\* sender, and no requester deletes a message.
C10_InsertIffOwnSender ==
  /\ resp.op = "insertMessage" =>
       (resp.ok <=> (resp.arg.sender_id = resp.uid /\ resp.arg.receiver_id \in users))
  /\ resp.op = "deleteMessage" => ~resp.ok
  /\ \A i \in 1..nextMsg : \E m \in messages : m.id = i

\* C10 witness: an insert was accepted, and a later delete of it left it there
C10_Witness ==
  /\ resp.op = "deleteMessage"
  /\ \E m \in messages : m.id = resp.arg /\ m.sender_id = resp.uid

\* the identity that owns the symptom a note references
NoteSymptomOwner(n) ==
  {s.patient_id : s \in {t \in symptoms : t.id = n.symptom_id}}

\* C11: a select of doctor notes by U returns a note iff U is its authoring
\* doctor or U owns the symptom it references; a doctor assigned to the patient
\* who did not write the note does not get it.
C11_NoteVisibleToAuthorOrOwner ==
  resp.op = "selectNotes" =>
    /\ resp.rows \subseteq doctor_notes
    /\ \A n \in doctor_notes :
         n \in resp.rows <=> (n.doctor_id = resp.uid \/ resp.uid \in NoteSymptomOwner(n))

\* C11 witness: a doctor assigned to the patient, not the author, selected notes
\* while a note on that patient's symptom existed, and did not get it
C11_Witness ==
  /\ resp.op = "selectNotes"
  /\ HoldsDoctorRole(resp.uid)
  /\ \E n \in doctor_notes :
       /\ n.doctor_id # resp.uid
       /\ n \notin resp.rows
       /\ \E p \in NoteSymptomOwner(n) : Assigned(p, resp.uid)

\* C12: a doctor note is immutable: no update and no delete of a note by any
\* requester succeeds, and in every step each note either stays as it was or
\* goes with its symptom or with its doctor's identity.
C12_NoteImmutable ==
  [][ /\ resp'.op \in {"updateNote", "deleteNote"} => ~resp'.ok
      /\ \A n \in doctor_notes :
           \/ n \in doctor_notes'
           \/ /\ \A m \in doctor_notes' : m.id # n.id
              /\ \/ \A s \in symptoms' : s.id # n.symptom_id
                 \/ n.doctor_id \notin users' ]_vars

\* C12 witness: the author's update of its own note was answered, and the note
\* is there as it was written
C12_Witness ==
  /\ resp.op = "updateNote"
  /\ \E n \in doctor_notes : n.id = resp.arg /\ n.doctor_id = resp.uid

\* C13 as stated: an assignment insert by U succeeds iff the row's patient_id
\* is U and the pair is not already present.  As a predicate of the state after
\* the request: an accepted insert names U as patient, and a row that is still
\* absent after the request did not name U as patient.
C13_AsStated ==
  resp.op = "insertAssignment" =>
    /\ resp.ok => resp.arg.patient_id = resp.uid
    /\ resp.arg \notin assignments => resp.arg.patient_id # resp.uid

\* C13 amended: an assignment insert by U succeeds iff the row's patient_id is
\* U, its doctor_id is an existing identity and the pair is not already
\* present; no request updates or deletes an assignment; a select by U returns
\* exactly the assignments naming U as patient or as doctor.
C13_InsertIffOwnPatient ==
  [][ /\ resp'.op = "insertAssignment" =>
           /\ resp'.ok <=> /\ resp'.arg.patient_id = resp'.uid
                           /\ resp'.arg.doctor_id \in users
                           /\ resp'.arg \notin assignments
           /\ assignments' = IF resp'.ok THEN assignments \cup {resp'.arg}
                                         ELSE assignments
      /\ resp'.op \in {"updateAssignment", "deleteAssignment"} =>
           ~resp'.ok /\ assignments' = assignments
      /\ resp'.op = "selectAssignments" =>
           resp'.rows = {a \in assignments :
                           a.patient_id = resp'.uid \/ a.doctor_id = resp'.uid} ]_vars

\* C13 witness: a patient's insert naming another identity as doctor was
\* accepted with nothing done by that identity
C13_Witness ==
  /\ resp.op = "insertAssignment"
  /\ resp.ok
  /\ resp.arg.doctor_id # resp.uid
  /\ resp.arg \in assignments

\* the requests a client sends to user_roles and has_role
RoleClientOps ==
  {"insertRole", "updateRole", "deleteRole", "selectRoles", "has_role"}

\* C14: no insert, update or delete of a role grant by a client succeeds, a
\* select by U returns exactly U's own grants, and so no client request changes
\* the roles any identity holds (no identity grants itself the doctor role).
C14_NoClientRoleChange ==
  [][ /\ resp'.op \in {"insertRole", "updateRole", "deleteRole"} => ~resp'.ok
      /\ resp'.op = "selectRoles" =>
           resp'.rows = {g \in user_roles : g.user_id = resp'.uid}
      /\ resp'.op \in RoleClientOps => user_roles' = user_roles ]_vars

\* C14 witness: an identity's insert of the doctor role for itself was denied
\* and it holds no doctor role
C14_Witness ==
  /\ resp.op = "insertRole"
  /\ resp.arg = RoleRow(resp.uid, "doctor")
  /\ ~resp.ok
  /\ ~HoldsDoctorRole(resp.uid)

\* the requests a client sends to profiles
ProfileClientOps ==
  {"insertProfile", "selectProfiles", "updateProfile", "deleteProfile"}

\* C15: a profile is selected, inserted and updated only by the identity whose
\* id it carries (an accepted insert has id = requester, and the owner's insert
\* is accepted when it has no profile yet), no request deletes a profile, and
\* no request of U reads or changes the profile of another identity.
C15_ProfileSelfOnly ==
  [][ resp'.op \in ProfileClientOps =>
        /\ resp'.op = "selectProfiles" =>
             resp'.rows = {r \in profiles : r.id = resp'.uid}
        /\ resp'.op = "insertProfile" =>
             (resp'.ok <=> /\ resp'.arg.id = resp'.uid
                           /\ \A r \in profiles : r.id # resp'.uid)
        /\ (resp'.op = "updateProfile" /\ resp'.ok) => resp'.arg = resp'.uid
        /\ resp'.op = "deleteProfile" => ~resp'.ok
        /\ \A r \in profiles : r \in profiles' \/ (r.id = resp'.uid /\ resp'.ok)
        /\ \A r \in profiles' : r \in profiles \/ (r.id = resp'.uid /\ resp'.ok)
        /\ Cardinality(profiles') >= Cardinality(profiles) ]_vars

\* C15 witness: an update of another identity's profile was answered and
\* changed nothing
C15_Witness ==
  /\ resp.op = "updateProfile"
  /\ ~resp.ok
  /\ \E r \in profiles : r.id = resp.arg /\ r.id # resp.uid

\* the lower-cased text, for the claims about the symptom finder
RECURSIVE C16_Lower(_)
C16_Lower(str) ==
  IF Len(str) = 0 THEN str
  ELSE C16_Lower(SubSeq(str, 1, Len(str) - 1))
         \o LowerChar(SubSeq(str, Len(str), Len(str)))

\* q is a substring of text
C16_Substring(q, text) ==
  \E i \in 0..Len(text) :
    i + Len(q) <= Len(text) /\ SubSeq(text, i + 1, i + Len(q)) = q

\* lower-cased q is a substring of the lower-cased name, description or a keyword
C16_Selected(e, q) ==
  \/ C16_Substring(C16_Lower(q), C16_Lower(e.name))
  \/ C16_Substring(C16_Lower(q), C16_Lower(e.description))
  \/ \E k \in DOMAIN e.keywords : C16_Substring(C16_Lower(q), C16_Lower(e.keywords[k]))

\* list is the sub-list of the reference list, in its order, of the entries in wanted
C16_SubList(list, wanted) ==
  /\ {list[i] : i \in DOMAIN list} = wanted
  /\ \A i, j \in DOMAIN list :
       i < j => \E k, l \in DOMAIN symptomDatabase :
                  k < l /\ symptomDatabase[k] = list[i] /\ symptomDatabase[l] = list[j]

\* the entries of the reference list that q selects
C16_Wanted(q) ==
  {symptomDatabase[k] : k \in {l \in DOMAIN symptomDatabase : C16_Selected(symptomDatabase[l], q)}}

\* C16 as stated: the result is a function of the query q: the whole reference
\* list for the empty query, otherwise exactly the sub-list, in order, of the
\* entries that lower-cased q selects.
C16_AsStated ==
  IF searchTerm = "" THEN filteredSymptoms = symptomDatabase
  ELSE C16_SubList(filteredSymptoms, C16_Wanted(searchTerm))

\* C16 amended: the result is a function of the query q: the whole 8-entry
\* reference list, in order, for an empty or all-white-space query, otherwise
\* exactly the sub-list, in order, of the entries that lower-cased q selects
\* ("itchy" gives the entries with keyword "itchy", "RASH" gives "Rash").
C16_FilterOfQuery ==
  /\ Len(symptomDatabase) = 8
  /\ IF \A i \in 1..Len(searchTerm) : SubSeq(searchTerm, i, i) \in WhiteSpace
     THEN filteredSymptoms = symptomDatabase
     ELSE C16_SubList(filteredSymptoms, C16_Wanted(searchTerm))
  /\ searchTerm = "itchy" =>
       {filteredSymptoms[i] : i \in DOMAIN filteredSymptoms}
         = {symptomDatabase[k] : k \in {l \in DOMAIN symptomDatabase :
               \E n \in DOMAIN symptomDatabase[l].keywords :
                 symptomDatabase[l].keywords[n] = "itchy"}}
  /\ searchTerm = "RASH" => \E i \in DOMAIN filteredSymptoms : filteredSymptoms[i].name = "Rash"

\* C16 witness: an upper-case query of several characters selected some entries
\* and left others out
C16_Witness ==
  /\ searchTerm = "RASH"
  /\ Len(filteredSymptoms) > 0
  /\ Len(filteredSymptoms) < Len(symptomDatabase)

\* C17: for every insertion event handed to the chat view, the row is appended
\* to the list shown iff its (sender, receiver) pair is (user, open doctor) or
\* (open doctor, user), the open doctor being the one selected when the event
\* is handled; an event that does not match leaves the list as it was.
C17_AppendIffOpenConversation ==
  [][ \A sub \in chat.subs, newMsg \in messages :
        ( /\ chat.mounted /\ chat'.mounted
          /\ <<sub, newMsg.id>> \notin chat.delivered
          /\ <<sub, newMsg.id>> \in chat'.delivered ) =>
          LET open == chat.selectedDoctor
              matches ==
                \/ newMsg.sender_id = chat.user /\ newMsg.receiver_id = open
                \/ newMsg.sender_id = open /\ newMsg.receiver_id = chat.user
          IN chat'.messages = IF matches THEN chat.messages \o <<newMsg>>
                                         ELSE chat.messages ]_vars

\* C17 witness: an event of the open conversation was handed over and its row
\* is the last of the list shown
C17_Witness ==
  /\ chat.mounted
  /\ chat.selectedDoctor # Anon
  /\ chat.delivered # {}
  /\ chat.messages # <<>>
  /\ \E x \in chat.delivered : chat.messages[Len(chat.messages)].id = x[2]

\* C18 as stated (for the sign-up handler's inserts): when a backend call of
\* the handler returns an error, the handler shows the error notification and
\* takes no further step: no next call, no success notification, no navigation.
C18_AsStated ==
  \A b \in Browsers :
    ( /\ auth[b].user # Anon
      /\ ~resp.ok
      /\ \/ resp.op = "insertProfile" /\ resp.arg.id = auth[b].user
         \/ resp.op = "insertRole" /\ resp.arg.user_id = auth[b].user ) =>
      /\ auth[b].pc = "done"
      /\ auth[b].toast = "Error"
      /\ auth[b].nav = "none"

\* the form fails the validation as the claim words it
C19_FailsValidation(form) ==
  \/ ~IsEmail(trim(form.email))
  \/ Len(form.password) < 6
  \/ ~form.isLogin /\ Len(trim(form.fullName)) < 2

\* C19: when the submitted form fails local validation, the handler issues no
\* sign-in, sign-up, Profile or RoleGrant call, shows an error, does not
\* navigate, and leaves the loading flag false.
C19_InvalidFormNoCall ==
  \A b \in Browsers :
    (auth[b].pc # "idle" /\ C19_FailsValidation(auth[b].form)) =>
      /\ auth[b].calls = {}
      /\ auth[b].toast = "Error"
      /\ auth[b].nav = "none"
      /\ ~auth[b].loading
      /\ auth[b].pc = "done"

\* C19 witness: a sign-up form whose only fault is a name of one character
\* after trimming was submitted and refused
C19_Witness ==
  \E b \in Browsers :
    /\ auth[b].pc = "done"
    /\ ~auth[b].form.isLogin
    /\ IsEmail(trim(auth[b].form.email))
    /\ Len(auth[b].form.password) >= 6
    /\ Len(auth[b].form.fullName) >= 2
    /\ auth[b].toast = "Error"
    /\ auth[b].calls = {}

\* C20: in every reachable state each doctor note references an existing
\* symptom; a delete of a symptom is accepted only from its owning patient, and
\* an accepted delete removes, in the same step, the symptom and exactly the
\* notes attached to it, leaving the notes of other symptoms as they were.
C20_NotesReferenceSymptoms ==
  /\ [](\A n \in doctor_notes : \E s \in symptoms : s.id = n.symptom_id)
  /\ [][ resp'.op = "deleteSymptom" =>
           IF resp'.ok
           THEN /\ \A s \in symptoms :
                     s.id = resp'.arg => s.patient_id = resp'.uid /\ s \notin symptoms'
                /\ \A s \in symptoms : s.id # resp'.arg => s \in symptoms'
                /\ doctor_notes' = {n \in doctor_notes : n.symptom_id # resp'.arg}
           ELSE /\ symptoms' = symptoms
                /\ doctor_notes' = doctor_notes ]_vars

\* C20 witness: two symptoms had a note each, the owner of one deleted it, and
\* the other symptom is there with its note
C20_Witness ==
  /\ resp.op = "deleteSymptom"
  /\ resp.ok
  /\ nextSym = 2
  /\ nextNote = 2
  /\ \A s \in symptoms : s.id # resp.arg
  /\ \E s \in symptoms, n \in doctor_notes :
       /\ n.symptom_id = s.id
       /\ symptoms = {s}
       /\ doctor_notes = {n}

\* C21: in every reachable state there is at most one assignment row per
\* (patient, doctor) pair: an insert of a pair that is already in the table is
\* answered with an error and leaves the table as it was, whatever inserts
\* came before it and in whatever order.
C21_UniquePair ==
  /\ [](\A p, d \in Ids :
          Cardinality({a \in assignments :
                         a.patient_id = p /\ a.doctor_id = d}) <= 1)
  /\ [][ ( /\ resp'.op = "insertAssignment"
           /\ \E a \in assignments : /\ a.patient_id = resp'.arg.patient_id
                                      /\ a.doctor_id = resp'.arg.doctor_id ) =>
           /\ ~resp'.ok
           /\ assignments' = assignments ]_vars

\* C21 witness: with two pairs in the table, the patient of one of them sent
\* its pair again and was refused
C21_Witness ==
  /\ resp.op = "insertAssignment"
  /\ ~resp.ok
  /\ resp.arg.patient_id = resp.uid
  /\ resp.arg \in assignments
  /\ Cardinality(assignments) = 2

\* the first segment of a path: what stands before its first "/"
C22_FirstSegment(name) ==
  IF \E i \in 1..Len(name) : SubSeq(name, i, i) = "/"
  THEN LET i == CHOOSE i \in 1..Len(name) :
                  /\ SubSeq(name, i, i) = "/"
                  /\ \A j \in 1..(i - 1) : SubSeq(name, j, j) # "/"
       IN SubSeq(name, 1, i - 1)
  ELSE name

\* C22: an object of the photo store is uploaded, updated (its contents
\* replaced, or moved) or deleted by requester U only if the first segment of
\* its path is U's identity; every object of the store is readable by every
\* requester, signed in or not; and the path the timeline builds for an upload
\* of user U has U's identity as first segment.
C22_OwnFolderOnly ==
  [][ /\ \A o \in (objects \ objects') \cup (objects' \ objects) :
           /\ resp'.ok
           /\ resp'.op \in {"upload", "updateObject", "moveObject", "removeObject",
                             "handlePhotoUpload"}
           /\ resp'.uid # Anon
           /\ C22_FirstSegment(o.name) = ToString(resp'.uid)
      /\ ( /\ resp'.op \in {"upload", "updateObject", "moveObject", "removeObject"}
           /\ resp'.ok ) =>
           /\ resp'.uid # Anon
           /\ C22_FirstSegment(resp'.arg.name) = ToString(resp'.uid)
      /\ (resp'.op = "download" /\ resp'.arg.bucket_id = "symptom-photos") =>
           /\ resp'.rows = {o \in objects : o.name = resp'.arg.name}
           /\ resp'.ok <=> \E o \in objects : o.name = resp'.arg.name
      /\ (resp'.op = "handlePhotoUpload" /\ resp'.uid # Anon) =>
           C22_FirstSegment(resp'.arg.name) = ToString(resp'.uid) ]_vars

\* C22 witness: an object uploaded by the timeline is in the store, and another
\* identity's request to delete it was refused
C22_Witness ==
  /\ resp.op = "removeObject"
  /\ ~resp.ok
  /\ resp.uid # Anon
  /\ \E o \in objects, now \in Times :
       /\ o.name = resp.arg.name
       /\ \E u \in users \ {resp.uid} : o.name = PhotoFileName(u, now, "a.png")

\* C23: sign-up issues its writes one call at a time in a fixed order: the
\* Profile insert only once the identity was created, the RoleGrant insert only
\* once the Profile insert has returned, neither when identity creation failed;
\* and no step of the handler takes back an identity, a Profile or a RoleGrant
\* written by an earlier step, so a handler that stops between two steps leaves
\* what it wrote so far.
C23_OrderedNoRollback ==
  /\ [](\A b \in Browsers :
          /\ "profiles" \in auth[b].calls =>
               "signUp" \in auth[b].calls /\ auth[b].user \in users
          /\ "user_roles" \in auth[b].calls => "profiles" \in auth[b].calls
          /\ auth[b].user = Anon => auth[b].calls \subseteq {"signUp"})
  /\ [][ /\ users \subseteq users'
         /\ profiles \subseteq profiles'
         /\ user_roles \subseteq user_roles'
         /\ Cardinality(users' \ users) + Cardinality(profiles' \ profiles)
              + Cardinality(user_roles' \ user_roles) <= 1
         /\ \A b \in Browsers :
              /\ auth[b].calls \subseteq auth'[b].calls
              /\ Cardinality(auth'[b].calls \ auth[b].calls) <= 1
              /\ "user_roles" \in auth'[b].calls => "profiles" \in auth[b].calls ]_vars

\* C23 witness: one handler stands between identity creation and the Profile
\* insert, its identity without a Profile; another stands between the Profile
\* insert and the RoleGrant insert, its identity with a Profile and no RoleGrant
C23_Witness ==
  \E b1, b2 \in Browsers :
    /\ auth[b1].pc = "profile"
    /\ auth[b1].user \in users
    /\ \A r \in profiles : r.id # auth[b1].user
    /\ auth[b2].pc = "roles"
    /\ \E r \in profiles : r.id = auth[b2].user
    /\ \A r \in user_roles : r.user_id # auth[b2].user

\* the event of row newMsg is handed to the callback of channel sub in this step
C24_Delivered(sub, newMsg) ==
  /\ chat.mounted /\ chat'.mounted
  /\ <<sub, newMsg.id>> \notin chat.delivered
  /\ <<sub, newMsg.id>> \in chat'.delivered

\* C24: the chat view does not deduplicate: every delivery of an insertion
\* event of the open conversation makes the list one entry longer, the new
\* entry last and the entries before it as they were, also when the list
\* already holds an entry with that message id.
C24_NoDeduplication ==
  [][ \A sub \in chat.subs, newMsg \in messages :
        ( /\ C24_Delivered(sub, newMsg)
          /\ {newMsg.sender_id, newMsg.receiver_id}
               = {chat.user, chat.selectedDoctor} ) =>
          /\ Len(chat'.messages) = Len(chat.messages) + 1
          /\ chat'.messages[Len(chat'.messages)] = newMsg
          /\ SubSeq(chat'.messages, 1, Len(chat.messages)) = chat.messages ]_vars

\* C24 witness: the list shows the same message twice
C24_Witness ==
  /\ chat.mounted
  /\ chat.delivered # {}
  /\ \E i, j \in 1..Len(chat.messages) :
       i < j /\ chat.messages[i].id = chat.messages[j].id

\* C25 as stated: the chat view holds at most one subscription to the change
\* feed at any time, and one insertion event is handled by at most one callback
\* of the view.
C25_AsStated ==
  /\ Cardinality(chat.subs \cup chat.stale) <= 1
  /\ \A x, y \in chat.delivered : x[2] = y[2] => x = y

\* C26 as stated: once the message fetch has completed and the insertion event
\* of a message of the open conversation has been delivered to the view, the
\* message is in the list shown.
C26_AsStated ==
  ( /\ chat.mounted
    /\ chat.selectedDoctor # Anon
    /\ chat.pending = "none" ) =>
    \A x \in chat.delivered :
      \A m \in messages :
        ( /\ m.id = x[2]
          /\ {m.sender_id, m.receiver_id} = {chat.user, chat.selectedDoctor} ) =>
          \E i \in 1..Len(chat.messages) : chat.messages[i].id = m.id

\* C28: the chat's message fetch of user U with doctor D selected, U # D,
\* returns exactly the messages with (sender, receiver) = (U, D) or (D, U), each
\* once, in ascending order of creation: no message between U and another
\* identity and none between D and another identity.
C28_ExactlyTheConversation ==
  (resp.op = "fetchMessages" /\ resp.uid # resp.arg.doctor) =>
    LET U == resp.uid
        D == resp.arg.doctor
        data == resp.arg.data
    IN /\ {data[i] : i \in 1..Len(data)}
            = {m \in messages :
                 \/ m.sender_id = U /\ m.receiver_id = D
                 \/ m.sender_id = D /\ m.receiver_id = U}
       /\ \A i, j \in 1..Len(data) : i < j => data[i].id < data[j].id

\* C28 witness: the fetch returned the two messages of the conversation, one
\* in each direction, and left out a message between the user and a third
\* identity
C28_Witness ==
  /\ resp.op = "fetchMessages"
  /\ resp.uid # resp.arg.doctor
  /\ Len(resp.arg.data) = 2
  /\ resp.arg.data[1].sender_id # resp.arg.data[2].sender_id
  /\ \E m \in messages :
       /\ resp.uid \in {m.sender_id, m.receiver_id}
       /\ resp.arg.doctor \notin {m.sender_id, m.receiver_id}

C29_Settled ==
  /\ PageRedirect(page) = "none"
  /\ page.user = Anon => page.path = "/auth"
  /\ (page.user # Anon /\ page.userRole = "doctor") => page.path \in {"/doctor", "/auth"}
  /\ (page.user # Anon /\ page.userRole = "patient") => page.path \in {"/dashboard", "/auth"}

C30_AsStated ==
  ( /\ page.path = "/doctor"
    /\ ~page.loading
    /\ ~ENABLED Redirect
    /\ ~ENABLED FetchPatientsEffect
    /\ page.fetch # "sent" ) =>
    ~page.loadingPatients

====
